---- MODULE Spec2Model ----
(***************************************************************************)
(* Render pipeline orchestrator of packages/runpod-studio/handler.py:      *)
(* the job router (handler), the three job handlers and the stages they    *)
(* call, with every external operation (fetch, model call, tool            *)
(* invocation, upload) reduced to the outcomes the handler can observe.    *)
(***************************************************************************)
EXTENDS Integers, Sequences, FiniteSets, TLC

\* ------------------------------------------------------------------ bounds
\* jobs one worker process handles in one behaviour
MaxJobs == 2
\* failing external operations in one behaviour
MaxFaults == 2

\* ------------------------------------------------------- python dictionaries
EmptyDict == [k \in {} |-> TRUE]

\* dict.get(k, default)
Get(d, k, default) == IF k \in DOMAIN d THEN d[k] ELSE default

\* a key that may be left out, or carry one of Vals
Opt(k, Vals) == {EmptyDict} \cup {(k :> v) : v \in Vals}

\* the tier table with color grading switched on for high
QUALITY_PRESETS_HighGraded ==
  [ realtime |-> [fps |-> 25, batch_size |-> 16, face_enhance |-> FALSE,
                  upscale |-> FALSE, upscale_factor |-> 1,
                  video_bitrate |-> "2M", audio_bitrate |-> "128k",
                  crf |-> 28, preset |-> "ultrafast"],
    draft    |-> [fps |-> 25, batch_size |-> 8, face_enhance |-> FALSE,
                  upscale |-> FALSE, upscale_factor |-> 1,
                  video_bitrate |-> "4M", audio_bitrate |-> "128k",
                  crf |-> 26, preset |-> "fast"],
    standard |-> [fps |-> 30, batch_size |-> 4, face_enhance |-> TRUE,
                  upscale |-> FALSE, upscale_factor |-> 1,
                  video_bitrate |-> "8M", audio_bitrate |-> "192k",
                  crf |-> 23, preset |-> "medium"],
    high     |-> [fps |-> 30, batch_size |-> 2, face_enhance |-> TRUE,
                  upscale |-> TRUE, upscale_factor |-> 2,
                  video_bitrate |-> "12M", audio_bitrate |-> "256k",
                  crf |-> 20, preset |-> "slow",
                  color_grading |-> TRUE],
    pixar    |-> [fps |-> 30, batch_size |-> 1, face_enhance |-> TRUE,
                  upscale |-> TRUE, upscale_factor |-> 2,
                  video_bitrate |-> "20M", audio_bitrate |-> "320k",
                  crf |-> 17, preset |-> "slow",
                  color_grading |-> TRUE, temporal_smoothing |-> TRUE],
    cinema   |-> [fps |-> 30, batch_size |-> 1, face_enhance |-> TRUE,
                  upscale |-> TRUE, upscale_factor |-> 4,
                  video_bitrate |-> "40M", audio_bitrate |-> "320k",
                  crf |-> 14, preset |-> "veryslow",
                  color_grading |-> TRUE, temporal_smoothing |-> TRUE,
                  film_grain |-> 2] ]

\* the tier table with a draft tier heavier than realtime
QUALITY_PRESETS_DraftHeavier ==
  [ realtime |-> [fps |-> 25, batch_size |-> 16, face_enhance |-> FALSE,
                  upscale |-> FALSE, upscale_factor |-> 1,
                  video_bitrate |-> "2M", audio_bitrate |-> "128k",
                  crf |-> 28, preset |-> "ultrafast"],
    draft    |-> [fps |-> 25, batch_size |-> 32, face_enhance |-> FALSE,
                  upscale |-> FALSE, upscale_factor |-> 1,
                  video_bitrate |-> "4M", audio_bitrate |-> "128k",
                  crf |-> 30, preset |-> "fast"],
    standard |-> [fps |-> 30, batch_size |-> 4, face_enhance |-> TRUE,
                  upscale |-> FALSE, upscale_factor |-> 1,
                  video_bitrate |-> "8M", audio_bitrate |-> "192k",
                  crf |-> 23, preset |-> "medium"],
    high     |-> [fps |-> 30, batch_size |-> 2, face_enhance |-> TRUE,
                  upscale |-> TRUE, upscale_factor |-> 2,
                  video_bitrate |-> "12M", audio_bitrate |-> "256k",
                  crf |-> 20, preset |-> "slow"],
    pixar    |-> [fps |-> 30, batch_size |-> 1, face_enhance |-> TRUE,
                  upscale |-> TRUE, upscale_factor |-> 2,
                  video_bitrate |-> "20M", audio_bitrate |-> "320k",
                  crf |-> 17, preset |-> "slow",
                  color_grading |-> TRUE, temporal_smoothing |-> TRUE],
    cinema   |-> [fps |-> 30, batch_size |-> 1, face_enhance |-> TRUE,
                  upscale |-> TRUE, upscale_factor |-> 4,
                  video_bitrate |-> "40M", audio_bitrate |-> "320k",
                  crf |-> 14, preset |-> "veryslow",
                  color_grading |-> TRUE, temporal_smoothing |-> TRUE,
                  film_grain |-> 2] ]


\* ------------------------------------------------------------- configuration
\* film_grain is kept in hundredths (0.02 -> 2), the unit add_film_grain
\* hands to the noise filter (int(intensity * 100)).
QUALITY_PRESETS ==
  [ realtime |-> [fps |-> 25, batch_size |-> 16, face_enhance |-> FALSE,
                  upscale |-> FALSE, upscale_factor |-> 1,
                  video_bitrate |-> "2M", audio_bitrate |-> "128k",
                  crf |-> 28, preset |-> "ultrafast"],
    draft    |-> [fps |-> 25, batch_size |-> 8, face_enhance |-> FALSE,
                  upscale |-> FALSE, upscale_factor |-> 1,
                  video_bitrate |-> "4M", audio_bitrate |-> "128k",
                  crf |-> 26, preset |-> "fast"],
    standard |-> [fps |-> 30, batch_size |-> 4, face_enhance |-> TRUE,
                  upscale |-> FALSE, upscale_factor |-> 1,
                  video_bitrate |-> "8M", audio_bitrate |-> "192k",
                  crf |-> 23, preset |-> "medium"],
    high     |-> [fps |-> 30, batch_size |-> 2, face_enhance |-> TRUE,
                  upscale |-> TRUE, upscale_factor |-> 2,
                  video_bitrate |-> "12M", audio_bitrate |-> "256k",
                  crf |-> 20, preset |-> "slow"],
    pixar    |-> [fps |-> 30, batch_size |-> 1, face_enhance |-> TRUE,
                  upscale |-> TRUE, upscale_factor |-> 2,
                  video_bitrate |-> "20M", audio_bitrate |-> "320k",
                  crf |-> 17, preset |-> "slow",
                  color_grading |-> TRUE, temporal_smoothing |-> TRUE],
    cinema   |-> [fps |-> 30, batch_size |-> 1, face_enhance |-> TRUE,
                  upscale |-> TRUE, upscale_factor |-> 4,
                  video_bitrate |-> "40M", audio_bitrate |-> "320k",
                  crf |-> 14, preset |-> "veryslow",
                  color_grading |-> TRUE, temporal_smoothing |-> TRUE,
                  film_grain |-> 2] ]

TierNames == DOMAIN QUALITY_PRESETS

\* a resolution that falls back to the fastest tier
ResolvePresetFastest(quality) == Get(QUALITY_PRESETS, quality, QUALITY_PRESETS["realtime"])

\* QUALITY_PRESETS.get(quality, QUALITY_PRESETS["standard"])
ResolvePreset(quality) == Get(QUALITY_PRESETS, quality, QUALITY_PRESETS["standard"])

\* ------------------------------------------------------------------- files
\* A file's content is the sequence of transformations that produced it;
\* the empty sequence stands for "no such file".
NoFile == << >>

Exists(files, f) == files[f] # NoFile

LipsyncFiles ==
  {"input.png", "input.mp3", "lipsync.mp4", "enhanced.mp4", "enhanced.temp.mp4",
   "upscaled.mp4", "upscaled.temp.mp4", "graded.mp4", "output.mp4",
   "final_encoded.mp4"}

VideoRenderFiles ==
  {"image.png", "voice.mp3", "music.mp3", "ambience.mp3", "sfx_0.mp3",
   "lipsync.mp4", "enhanced.mp4", "enhanced.temp.mp4", "upscaled.mp4",
   "upscaled.temp.mp4", "mixed.aac", "captioned.mp4", "graded.mp4",
   "grain.mp4", "final.mp4", "thumbnail.jpg"}

PersonaFiles == {"primary.png", "take_0.mp4", "take_1.mp4"}

FileNames == LipsyncFiles \cup VideoRenderFiles \cup PersonaFiles

\* tempfile.TemporaryDirectory(): a fresh, empty directory
EmptyDir == [f \in FileNames |-> NoFile]

\* output_video.with_suffix('.temp.mp4')
TempOf(f) ==
  CASE f = "enhanced.mp4" -> "enhanced.temp.mp4"
    [] f = "upscaled.mp4" -> "upscaled.temp.mp4"

\* a copy that writes nothing
CopyNothing(files, src, dst) == files

\* shutil.copy(src, dst); the caller has checked that src exists
CopyFile(files, src, dst) == [files EXCEPT ![dst] = files[src]]

\* the write of a produced artifact
WriteFile(files, dst, content) == [files EXCEPT ![dst] = content]

\* ------------------------------------------------------------------ stages
\* Every stage operator takes the scratch files, the outcome o the external
\* world gives its calls, and returns the files afterwards, the exception
\* that left the stage (NoError when it returned), how the output was made
\* and how many external operations failed on the way.
NoError == ""

\* a setup_musetalk() that clones and installs on every call
setup_musetalk_every_time(ready, o) ==
  IF o = "fail"
  THEN [ready |-> ready, raised |-> "CalledProcessError", cost |-> 1,
        did |-> "failed"]
  ELSE [ready |-> TRUE, raised |-> NoError, cost |-> 0, did |-> "installed"]

\* setup_musetalk(): git clone, pip install and weight download, once; did
\* tells whether the call returned the handle at once, installed, or failed
setup_musetalk(ready, o) ==
  IF ready THEN [ready |-> TRUE, raised |-> NoError, cost |-> 0, did |-> "nothing"]
  ELSE IF o = "fail"
       THEN [ready |-> FALSE, raised |-> "CalledProcessError", cost |-> 1,
             did |-> "failed"]
       ELSE [ready |-> TRUE, raised |-> NoError, cost |-> 0, did |-> "installed"]

\* a setup_gfpgan() that loads the restorer anew on every call and drops the
\* handle when the load fails
setup_gfpgan_reload(model, o) ==
  IF o = "setup_fail"
  THEN [model |-> FALSE, raised |-> "CalledProcessError", cost |-> 1,
        did |-> "failed"]
  ELSE [model |-> TRUE, raised |-> NoError, cost |-> 0, did |-> "installed"]

\* setup_gfpgan() / setup_realesrgan(): the handle stays None when the
\* install, the import or the download raises
setup_gfpgan(model, o) ==
  IF model THEN [model |-> TRUE, raised |-> NoError, cost |-> 0, did |-> "nothing"]
  ELSE IF o = "setup_fail"
       THEN [model |-> FALSE, raised |-> "CalledProcessError", cost |-> 1,
             did |-> "failed"]
       ELSE [model |-> TRUE, raised |-> NoError, cost |-> 0, did |-> "installed"]

setup_realesrgan(model, o) ==
  IF model THEN [model |-> TRUE, raised |-> NoError, cost |-> 0, did |-> "nothing"]
  ELSE IF o = "setup_fail"
       THEN [model |-> FALSE, raised |-> "CalledProcessError", cost |-> 1,
             did |-> "failed"]
       ELSE [model |-> TRUE, raised |-> NoError, cost |-> 0, did |-> "installed"]

\* run_ffmpeg_fallback(): static image + audio mux, check=True
run_ffmpeg_fallback(files, image, audio, out, o) ==
  IF o = "ok"
  THEN [files |-> WriteFile(files, out, files[image] \o files[audio] \o <<"static_mux">>),
        raised |-> NoError, tried |-> <<"static_mux">>, cost |-> 0]
  ELSE [files |-> files, raised |-> "CalledProcessError",
        tried |-> <<"static_mux">>, cost |-> 1]

\* run_wav2lip_fallback(): any exception of the Wav2Lip attempt goes to the
\* static mux
run_wav2lip_fallback(files, image, audio, out, o) ==
  IF o.wav2lip = "ok"
  THEN [files |-> WriteFile(files, out, files[image] \o files[audio] \o <<"wav2lip">>),
        raised |-> NoError, tried |-> <<"wav2lip">>, cost |-> 0]
  ELSE LET f == run_ffmpeg_fallback(files, image, audio, out, o.static)
       IN  [files |-> f.files, raised |-> f.raised,
            tried |-> <<"wav2lip">> \o f.tried, cost |-> 1 + f.cost]

\* outcomes of the synthesis stage's external operations: setup, the
\* primary model (returns with a result file, returns without one, raises
\* ImportError, raises another exception), Wav2Lip, the static mux
SynthOutcomes ==
  [setup : {"ok", "fail"},
   primary : {"ok", "nofile", "import_error", "error"},
   wav2lip : {"ok", "fail"},
   static : {"ok", "fail"}]

\* run_musetalk_inference()
run_musetalk_inference(files, ready, image, audio, out, quality, o) ==
  LET s == setup_musetalk(ready, o.setup)
      config == [fps |-> ResolvePreset(quality).fps,
                 batch_size |-> ResolvePreset(quality).batch_size]
  IN
  IF s.raised # NoError
  THEN [files |-> files, ready |-> s.ready, raised |-> s.raised,
        tried |-> <<"setup_musetalk">>, cost |-> s.cost, config |-> config, setup |-> s.did]
  ELSE
    CASE o.primary = "ok" ->
           [files |-> WriteFile(files, out, files[image] \o files[audio] \o <<"musetalk">>),
            ready |-> s.ready, raised |-> NoError, tried |-> <<"musetalk">>,
            cost |-> 0, config |-> config, setup |-> s.did]
      [] o.primary = "nofile" ->
           [files |-> files, ready |-> s.ready, raised |-> NoError,
            tried |-> <<"musetalk">>, cost |-> 1, config |-> config, setup |-> s.did]
      [] o.primary = "import_error" ->
           LET w == run_wav2lip_fallback(files, image, audio, out, o)
           IN  [files |-> w.files, ready |-> s.ready, raised |-> w.raised,
                tried |-> <<"musetalk">> \o w.tried, cost |-> 1 + w.cost,
                config |-> config, setup |-> s.did]
      [] o.primary = "error" ->
           LET f == run_ffmpeg_fallback(files, image, audio, out, o.static)
           IN  [files |-> f.files, ready |-> s.ready, raised |-> f.raised,
                tried |-> <<"musetalk">> \o f.tried, cost |-> 1 + f.cost,
                config |-> config, setup |-> s.did]

\* outcomes of a frame-by-frame neural stage: all well, model setup raises,
\* frame processing raises, the re-mux with the original audio raises
NeuralOutcomes == {"ok", "setup_fail", "process_fail", "mux_fail"}

\* the try block and the except block shared by enhance_face_in_video and
\* upscale_video_realesrgan: s is the setup's result, tag the transformation
FrameByFrame(files, s, input, out, tag, o) ==
  LET tmp == TempOf(out)
      body ==
        IF s.raised # NoError THEN [files |-> files, ok |-> FALSE, cost |-> s.cost]
        ELSE IF ~Exists(files, input) THEN [files |-> files, ok |-> FALSE, cost |-> 0]
        ELSE CASE o = "process_fail" -> [files |-> files, ok |-> FALSE, cost |-> 1]
               [] o = "mux_fail" ->
                    [files |-> WriteFile(files, tmp, files[input] \o <<tag, "no_audio">>),
                     ok |-> FALSE, cost |-> 1]
               [] OTHER ->
                    [files |-> WriteFile(files, out, files[input] \o <<tag>>),
                     ok |-> TRUE, cost |-> 0]
  IN
  IF body.ok
  THEN [files |-> body.files, model |-> s.model, setup |-> s.did, raised |-> NoError,
        res |-> "primary", cost |-> body.cost]
  ELSE IF Exists(body.files, input)
       THEN [files |-> CopyFile(body.files, input, out), model |-> s.model, setup |-> s.did,
             raised |-> NoError, res |-> "copied", cost |-> body.cost]
       ELSE [files |-> body.files, model |-> s.model, setup |-> s.did,
             raised |-> "FileNotFoundError", res |-> "raised", cost |-> body.cost]

\* enhance_face_in_video()
enhance_face_in_video(files, model, input, out, o) ==
  FrameByFrame(files, setup_gfpgan(model, o), input, out, "gfpgan", o)

UpscaleTag(scale, smoothing) ==
  CASE scale = 2 /\ ~smoothing -> "realesrgan_x2"
    [] scale = 2 /\ smoothing -> "realesrgan_x2_smoothed"
    [] scale = 4 /\ ~smoothing -> "realesrgan_x4"
    [] scale = 4 /\ smoothing -> "realesrgan_x4_smoothed"
    [] OTHER -> "realesrgan_x1"

\* upscale_video_realesrgan()
upscale_video_realesrgan(files, model, input, out, scale, smoothing, o) ==
  FrameByFrame(files, setup_realesrgan(model, o), input, out,
               UpscaleTag(scale, smoothing), o)

\* a filter stage that lets the tool overwrite its input as well
FilterStageInPlace(files, input, out, tag, o) ==
  IF Exists(files, input) /\ o = "ok"
  THEN [files |-> [files EXCEPT ![out] = files[input] \o <<tag>>,
                                ![input] = files[input] \o <<tag>>],
        raised |-> NoError, res |-> "primary", cost |-> 0]
  ELSE IF Exists(files, input)
       THEN [files |-> CopyFile(files, input, out), raised |-> NoError,
             res |-> "copied", cost |-> 1]
       ELSE [files |-> files, raised |-> "FileNotFoundError",
             res |-> "raised", cost |-> 0]

\* a filter stage run through ffmpeg inside try/except: the tool exits with
\* an error or cannot be launched ("fail"), and then the input is copied
FilterStage(files, input, out, tag, o) ==
  IF Exists(files, input) /\ o = "ok"
  THEN [files |-> WriteFile(files, out, files[input] \o <<tag>>),
        raised |-> NoError, res |-> "primary", cost |-> 0]
  ELSE IF Exists(files, input)
       THEN [files |-> CopyFile(files, input, out), raised |-> NoError,
             res |-> "copied", cost |-> 1]
       ELSE [files |-> files, raised |-> "FileNotFoundError",
             res |-> "raised", cost |-> 0]

\* apply_color_grading(..., style="cinematic")
apply_color_grading(files, input, out, o) ==
  FilterStage(files, input, out, "grade_cinematic", o)

\* add_film_grain()
add_film_grain(files, input, out, o) ==
  FilterStage(files, input, out, "film_grain", o)

\* a final encode with the standard tier's settings written into the command
final_encode_cmd_fixed(p, input, out) ==
  << <<"ffmpeg">>, <<"-y">>, <<"-i", input>>,
     <<"-c:v", "libx264">>,
     <<"-crf", [decimal |-> 23]>>,
     <<"-preset", "medium">>,
     <<"-b:v", "8M">>,
     <<"-c:a", "aac">>,
     <<"-b:a", "192k">>,
     <<out>> >>

\* str(n) of a number: its decimal text
Str(n) == [decimal |-> n]

\* the argument list of the final encode of handle_lipsync_only
final_encode_cmd(p, input, out) ==
  << <<"ffmpeg">>, <<"-y">>, <<"-i", input>>,
     <<"-c:v", "libx264">>,
     <<"-crf", Str(p["crf"])>>,
     <<"-preset", p["preset"]>>,
     <<"-b:v", p["video_bitrate"]>>,
     <<"-c:a", "aac">>,
     <<"-b:a", p["audio_bitrate"]>>,
     <<out>> >>

\* the argument list of the final encode of handle_video_render
final_mux_encode_cmd(p, video, audio, out) ==
  << <<"ffmpeg">>, <<"-y">>, <<"-i", video>>, <<"-i", audio>>,
     <<"-c:v", "libx264">>,
     <<"-preset", p["preset"]>>,
     <<"-crf", Str(p["crf"])>>,
     <<"-b:v", p["video_bitrate"]>>,
     <<"-c:a", "aac">>,
     <<"-b:a", p["audio_bitrate"]>>,
     <<"-map", "0:v">>, <<"-map", "1:a">>,
     <<"-shortest">>,
     <<out>> >>

\* the final encode of handle_lipsync_only: libx264 with the preset's crf,
\* preset and bitrates, check=True
final_encode(files, input, out, o) ==
  IF Exists(files, input) /\ o = "ok"
  THEN [files |-> WriteFile(files, out, files[input] \o <<"x264">>),
        raised |-> NoError, res |-> "primary", cost |-> 0]
  ELSE [files |-> files, raised |-> "CalledProcessError", res |-> "raised",
        cost |-> IF Exists(files, input) THEN 1 ELSE 0]

\* the final encode of handle_video_render: video of one input, audio of the
\* other (-map 0:v -map 1:a), check=True
final_mux_encode(files, video, audio, out, o) ==
  IF Exists(files, video) /\ Exists(files, audio) /\ o = "ok"
  THEN [files |-> WriteFile(files, out, files[video] \o files[audio] \o <<"x264">>),
        raised |-> NoError, res |-> "primary", cost |-> 0]
  ELSE [files |-> files, raised |-> "CalledProcessError", res |-> "raised",
        cost |-> IF Exists(files, video) /\ Exists(files, audio) THEN 1 ELSE 0]

\* outcomes of a tool run whose exit status the code reads itself: exit 0,
\* exit with an error, or the tool cannot be launched (subprocess.run raises)
ToolOutcomes == {"ok", "nonzero", "nolaunch"}

\* f"[{input_idx}:a]": the audio of the input file number input_idx
Pad(input_idx) == <<"0:a", "1:a", "2:a", "3:a">>[input_idx + 1]

\* the command mix_audio() builds: the input files in -i order, the filters
\* of filter_complex with the labels each reads and writes, and the label
\* that is mapped to the output
mix_filter_graph(files, voice, music, ambience, sfx) ==
  LET has_music == music # "None" /\ Exists(files, music)
      has_ambience == ambience # "None" /\ Exists(files, ambience)
      has_sfx == sfx # << >> /\ Exists(files, sfx[1])
      music_idx == 1
      ambience_idx == music_idx + (IF has_music THEN 1 ELSE 0)
      sfx_idx == ambience_idx + (IF has_ambience THEN 1 ELSE 0)
      mix_inputs ==
        <<"voice">> \o (IF has_music THEN <<"music">> ELSE << >>)
          \o (IF has_ambience THEN <<"ambience">> ELSE << >>)
          \o (IF has_sfx THEN <<"sfx0">> ELSE << >>)
  IN
  [inputs |-> <<voice>> \o (IF has_music THEN <<music>> ELSE << >>)
                \o (IF has_ambience THEN <<ambience>> ELSE << >>)
                \o (IF has_sfx THEN <<sfx[1]>> ELSE << >>),
   filters |->
     <<[reads |-> <<Pad(0)>>, filter |-> "volume", writes |-> <<"voice">>]>>
     \o (IF has_music
         THEN <<[reads |-> <<Pad(music_idx)>>, filter |-> "aloop,atrim,volume",
                 writes |-> <<"music_raw">>],
                [reads |-> <<"music_raw", "voice">>, filter |-> "sidechaincompress",
                 writes |-> <<"music">>]>>
         ELSE << >>)
     \o (IF has_ambience
         THEN <<[reads |-> <<Pad(ambience_idx)>>, filter |-> "aloop,atrim,volume",
                 writes |-> <<"ambience">>]>>
         ELSE << >>)
     \o (IF has_sfx
         THEN <<[reads |-> <<Pad(sfx_idx)>>, filter |-> "adelay,volume",
                 writes |-> <<"sfx0">>]>>
         ELSE << >>)
     \o <<[reads |-> mix_inputs, filter |-> "amix", writes |-> <<"out">>,
           inputs |-> Len(mix_inputs), duration |-> "first"]>>,
   map |-> "out"]

\* the tracks mix_audio adds to the voice: those whose file exists
MixTags(files, music, ambience, sfx) ==
  (IF music # "None" /\ Exists(files, music) THEN <<"music_ducked">> ELSE << >>)
  \o (IF ambience # "None" /\ Exists(files, ambience) THEN <<"ambience">> ELSE << >>)
  \o (IF sfx # << >> /\ Exists(files, sfx[1]) THEN <<"sfx0">> ELSE << >>)

\* mix_audio()
mix_audio(files, voice, music, ambience, sfx, out, o) ==
  CASE o = "nolaunch" ->
         [files |-> files, raised |-> "FileNotFoundError", res |-> "raised", cost |-> 1]
    [] o = "nonzero" ->
         [files |-> CopyFile(files, voice, out), raised |-> NoError,
          res |-> "copied", cost |-> 1]
    [] OTHER ->
         [files |-> WriteFile(files, out,
                      files[voice] \o <<"amix">> \o MixTags(files, music, ambience, sfx)),
          raised |-> NoError, res |-> "primary", cost |-> 0]

\* text.replace("'", "'\\''").replace(":", "\\:") on a text given as its
\* characters
RECURSIVE escape_text(_)
escape_text(text) ==
  IF text = << >> THEN << >>
  ELSE (CASE Head(text) = "'" -> <<"'", "\\", "'", "'">>
          [] Head(text) = ":" -> <<"\\", ":">>
          [] OTHER -> <<Head(text)>>) \o escape_text(Tail(text))

\* a caption loop that enables every overlay in the first caption's window
drawtext_filters_first_window(captions, caption_style) ==
  [k \in 1..Len(captions) |->
     [text |-> escape_text(captions[k].text),
      fontsize |-> Str(Get(caption_style, "font_size", 48)),
      fontcolor |-> Get(caption_style, "color", "white"),
      borderw |-> Str(Get(caption_style, "stroke_width", 2)),
      bordercolor |-> Get(caption_style, "stroke_color", "black"),
      x |-> "(w-tw)/2",
      y |-> <<"h*", Str(Get(caption_style, "position_y", "0.75"))>>,
      enable |-> <<"between", "t", Str(captions[1].start), Str(captions[1].end)>>]]

\* the style lookups and the caption loop of burn_captions(): one drawtext
\* filter per caption, in list order
drawtext_filters(captions, caption_style) ==
  [k \in 1..Len(captions) |->
     [text |-> escape_text(captions[k].text),
      fontsize |-> Str(Get(caption_style, "font_size", 48)),
      fontcolor |-> Get(caption_style, "color", "white"),
      borderw |-> Str(Get(caption_style, "stroke_width", 2)),
      bordercolor |-> Get(caption_style, "stroke_color", "black"),
      x |-> "(w-tw)/2",
      y |-> <<"h*", Str(Get(caption_style, "position_y", "0.75"))>>,
      enable |-> <<"between", "t", Str(captions[k].start), Str(captions[k].end)>>]]

\* a caption burn that runs the tool on an empty caption list too
burn_captions_unguarded(files, video, captions, out, o) ==
  CASE o = "nolaunch" ->
         [files |-> files, raised |-> "FileNotFoundError", res |-> "raised",
          cost |-> 1]
    [] o = "nonzero" \/ ~Exists(files, video) ->
         IF Exists(files, video)
         THEN [files |-> CopyFile(files, video, out), raised |-> NoError,
               res |-> "copied", cost |-> 1]
         ELSE [files |-> files, raised |-> "FileNotFoundError",
               res |-> "raised", cost |-> 0]
    [] OTHER ->
         [files |-> WriteFile(files, out, files[video] \o <<"drawtext">>),
          raised |-> NoError, res |-> "primary", cost |-> 0]

\* burn_captions()
burn_captions(files, video, captions, out, o) ==
  IF captions = << >>
  THEN IF Exists(files, video)
       THEN [files |-> CopyFile(files, video, out), raised |-> NoError,
             res |-> "copied", cost |-> 0]
       ELSE [files |-> files, raised |-> "FileNotFoundError", res |-> "raised",
             cost |-> 0]
  ELSE CASE o = "nolaunch" ->
              [files |-> files, raised |-> "FileNotFoundError", res |-> "raised",
               cost |-> 1]
         [] o = "nonzero" \/ ~Exists(files, video) ->
              IF Exists(files, video)
              THEN [files |-> CopyFile(files, video, out), raised |-> NoError,
                    res |-> "copied", cost |-> 1]
              ELSE [files |-> files, raised |-> "FileNotFoundError",
                    res |-> "raised", cost |-> 0]
         [] OTHER ->
              [files |-> WriteFile(files, out, files[video] \o <<"drawtext">>),
               raised |-> NoError, res |-> "primary", cost |-> 0]

\* a thumbnail that is a fixed placeholder image, not a frame of the input
extract_thumbnail_placeholder(files, input, out, o) ==
  CASE o = "nolaunch" ->
         [files |-> files, raised |-> "FileNotFoundError", res |-> "raised", cost |-> 1]
    [] o = "nonzero" ->
         [files |-> files, raised |-> NoError, res |-> "failed", cost |-> 1]
    [] OTHER ->
         [files |-> WriteFile(files, out, <<"placeholder">>),
          raised |-> NoError, res |-> "primary", cost |-> 0]

\* the thumbnail extraction of handle_video_render: no check of the exit
\* status, so a failing run leaves no thumbnail and the handler goes on
extract_thumbnail(files, input, out, o) ==
  CASE o = "nolaunch" ->
         [files |-> files, raised |-> "FileNotFoundError", res |-> "raised", cost |-> 1]
    [] o = "nonzero" ->
         [files |-> files, raised |-> NoError, res |-> "failed", cost |-> 1]
    [] OTHER ->
         [files |-> WriteFile(files, out, files[input] \o <<"frame0">>),
          raised |-> NoError, res |-> "primary", cost |-> 0]

\* the ffprobe of the voice duration: float(result.stdout.strip() or 10)
ProbeOutcomes == {"ok", "empty", "unparsable", "nolaunch"}

probe_duration(o) ==
  CASE o = "ok" -> [duration |-> 7, raised |-> NoError, cost |-> 0]
    [] o = "empty" -> [duration |-> 10, raised |-> NoError, cost |-> 1]
    [] o = "unparsable" -> [duration |-> 0, raised |-> "ValueError", cost |-> 1]
    [] OTHER -> [duration |-> 0, raised |-> "FileNotFoundError", cost |-> 1]

\* ------------------------------------------------------- artifact transfer
None == "None"

HttpRefs == {"http://image", "http://audio", "http://music", "http://ambience",
             "http://sfx"}

\* a or b
PyOr(a, b) == IF a # None /\ a # "" THEN a ELSE b

\* an input resolution that swallows a failed fetch or decode
resolve_input_lenient(files, ref, path, o) ==
  IF ref = None
  THEN [files |-> files, raised |-> "AttributeError", via |-> "none", cost |-> 0]
  ELSE IF o = "ok"
  THEN [files |-> WriteFile(files, path, <<ref>>), raised |-> NoError,
        via |-> "any", cost |-> 0]
  ELSE [files |-> files, raised |-> NoError, via |-> "any", cost |-> 1]

\* the branch `if data.startswith("http"): download_file(...) else:
\* decode_base64_to_file(...)` of the three job handlers
resolve_input(files, ref, path, o) ==
  IF ref = None
  THEN [files |-> files, raised |-> "AttributeError", via |-> "none", cost |-> 0]
  ELSE IF ref \in HttpRefs
  THEN IF o = "ok"
       THEN [files |-> WriteFile(files, path, <<ref>>), raised |-> NoError,
             via |-> "download_file", cost |-> 0]
       ELSE [files |-> files, raised |-> "URLError", via |-> "download_file",
             cost |-> 1]
  ELSE IF o = "ok"
       THEN [files |-> WriteFile(files, path, <<ref>>), raised |-> NoError,
             via |-> "decode_base64_to_file", cost |-> 0]
       ELSE [files |-> files, raised |-> "binascii.Error",
             via |-> "decode_base64_to_file", cost |-> 1]

\* download_file()
download_file(files, url, path, o) ==
  IF o = "ok"
  THEN [files |-> WriteFile(files, path, <<url>>), raised |-> NoError, cost |-> 0]
  ELSE [files |-> files, raised |-> "URLError", cost |-> 1]

\* an upload that goes to the object store whether or not one is configured
upload_to_r2_unconditional(files, endpoint, path, key, o) ==
  IF ~Exists(files, path)
  THEN [url |-> EmptyDict, stored |-> << >>, raised |-> "FileNotFoundError", cost |-> 0]
  ELSE IF o = "ok"
  THEN [url |-> [scheme |-> "https", key |-> key],
        stored |-> <<[key |-> key, body |-> files[path]]>>,
        raised |-> NoError, cost |-> 0]
  ELSE [url |-> EmptyDict, stored |-> << >>, raised |-> "S3UploadFailedError", cost |-> 1]

\* upload_to_r2(): a data URI of the file's bytes when no endpoint is
\* configured, else an upload and the public URL of the key
upload_to_r2(files, endpoint, path, key, o) ==
  IF ~Exists(files, path)
  THEN [url |-> EmptyDict, stored |-> << >>, raised |-> "FileNotFoundError", cost |-> 0]
  ELSE IF ~endpoint
  THEN [url |-> [scheme |-> "data", body |-> files[path]], stored |-> << >>,
        raised |-> NoError, cost |-> 0]
  ELSE IF o = "ok"
  THEN [url |-> [scheme |-> "https", key |-> key],
        stored |-> <<[key |-> key, body |-> files[path]]>>,
        raised |-> NoError, cost |-> 0]
  ELSE [url |-> EmptyDict, stored |-> << >>, raised |-> "S3UploadFailedError", cost |-> 1]

\* --------------------------------------------------------------- job inputs
\* a value of the job's "input" key that is no mapping (JSON null)
NotADict == [python_type |-> "NoneType"]

IsDict(x) == "python_type" \notin DOMAIN x

QualityFields == Opt("quality", TierNames \cup {"ultra", "CINEMA"})

ImageRefs ==
  {a @@ b : a \in Opt("source_image", {"http://image"}),
            b \in Opt("image", {"data:image"})}

AudioRefs ==
  {a @@ b : a \in Opt("driven_audio", {"http://audio"}),
            b \in Opt("audio", {"data:audio"})}

BaseMedia == ("image" :> "data:image") @@ ("audio" :> "data:audio")

Caption == [text |-> <<"h", "i">>, start |-> 0, end |-> 2]

\* a second caption, later than the first, whose text has a quote and a colon
LaterCaption == [text |-> <<"'", "s", ":">>, start |-> 3, end |-> 5]

CaptionStyles ==
  Opt("caption_style",
      {[font_size |-> 64, color |-> "yellow"],
       [stroke_color |-> "blue", stroke_width |-> 4, position_y |-> "0.5"]})

LipsyncInputs ==
  {("job_type" :> "lipsync_only") @@ q @@ f @@ BaseMedia :
      q \in QualityFields, f \in Opt("face_enhance", BOOLEAN)}
  \cup {i @@ a : i \in ImageRefs, a \in AudioRefs}

VideoRenderInputs ==
  {("job_type" :> "video_render") @@ q @@ BaseMedia : q \in QualityFields}
  \cup {("job_type" :> "video_render") @@ q @@ c @@ BaseMedia :
          q \in Opt("quality", {"cinema"}),
          c \in Opt("captions", {<< >>, <<Caption>>})}
  \cup {("job_type" :> "video_render") @@ ("quality" :> q) @@ f @@ BaseMedia :
          q \in {"realtime", "standard"}, f \in Opt("face_enhance", BOOLEAN)}
  \cup {("job_type" :> "video_render") @@ ("quality" :> "draft")
          @@ ("captions" :> <<Caption, LaterCaption>>) @@ y @@ BaseMedia :
          y \in CaptionStyles}
  \cup {("job_type" :> "video_render") @@ i @@ ("audio" :> "data:audio") :
          i \in ImageRefs}
  \cup {("job_type" :> "video_render") @@ ("image" :> "data:image") @@ a :
          a \in AudioRefs}
  \cup {("job_type" :> "video_render") @@ m @@ a @@ x @@ BaseMedia :
          m \in Opt("music_url", {"http://music"}),
          a \in Opt("ambience_url", {"http://ambience"}),
          x \in Opt("sfx_tracks", {<<[url |-> "http://sfx", start_time |-> 1]>>,
                                   <<[start_time |-> 1]>>})}

TakeSpecs == {<< >>, <<[emotion |-> "happy"]>>,
              <<[emotion |-> "happy"], [angle |-> "left"]>>}

PersonaInputs ==
  {("job_type" :> "persona_build") @@ ("persona_id" :> "p1") @@ i @@ t :
      i \in Opt("primary_image", {"http://image", "data:image"}),
      t \in Opt("takes_to_generate", TakeSpecs)}

UnknownInputs == {("job_type" :> "bogus_type")}

JobInputs == LipsyncInputs \cup VideoRenderInputs \cup PersonaInputs \cup UnknownInputs

\* the job records the platform hands to handler(job)
Jobs == {("input" :> ji) : ji \in JobInputs} \cup {EmptyDict, ("input" :> NotADict)}

\* -------------------------------------------------------------------- state
VARIABLES
  musetalk_ready,    \* module global _musetalk_ready
  gfpgan_model,      \* module global _gfpgan_model is not None
  realesrgan_model,  \* module global _realesrgan_model is not None
  R2_ENDPOINT,       \* a storage endpoint is configured
  jobs_started,      \* handler invocations so far
  faults,            \* failed external operations so far
  pc,                \* where the worker is in the current invocation
  job_input,         \* the current job's input mapping
  tmpdir,            \* the job's TemporaryDirectory exists
  fs,                \* content of the files of the scratch directory
  current_output,    \* current_output / current_video of the job handler
  log,               \* the stage calls of the current job, in call order
  published,         \* objects the current job put into the bucket
  base_takes,        \* base_takes of handle_persona_build
  response           \* what handler returned for the current job

vars == <<musetalk_ready, gfpgan_model, realesrgan_model, R2_ENDPOINT,
          jobs_started, faults, pc, job_input, tmpdir, fs, current_output,
          log, published, base_takes, response>>

NoResponse == [pending |-> TRUE]

\* the locals the job handlers read from the job input
quality == Get(job_input, "quality", "standard")
preset == ResolvePreset(quality)
job_id == Get(job_input, "job_id", "job_<time>")
image_data == PyOr(Get(job_input, "source_image", None), Get(job_input, "image", None))
audio_data == PyOr(Get(job_input, "driven_audio", None), Get(job_input, "audio", None))

\* the pre-warm at module load: the three setups in order inside one try, so
\* the first one that raises leaves the later handles unset
Init ==
  /\ \E warm \in 0..3 :
       /\ musetalk_ready = (warm >= 1)
       /\ gfpgan_model = (warm >= 2)
       /\ realesrgan_model = (warm >= 3)
       /\ faults = IF warm = 3 THEN 0 ELSE 1
  /\ R2_ENDPOINT \in BOOLEAN
  /\ jobs_started = 0
  /\ pc = "idle"
  /\ job_input = EmptyDict
  /\ tmpdir = FALSE
  /\ fs = EmptyDir
  /\ current_output = ""
  /\ log = << >>
  /\ published = << >>
  /\ base_takes = << >>
  /\ response = NoResponse

\* ------------------------------------------------------------ control flow
Spend(cost) == faults + cost <= MaxFaults /\ faults' = faults + cost

\* one stage call: the stage, its visual input and its output, how the output
\* was made, and for the synthesis the methods tried, in order
Entry(stage, src, dst, res, tried) ==
  [stage |-> stage, src |-> src, dst |-> dst, res |-> res, tried |-> tried]

\* handle_lipsync_only with the color grading placed before the upscale
LipsyncNextGradeFirst(at) ==
  CASE at = "l_resolve" -> "l_synth"
    [] at = "l_synth" -> "l_face"
    [] at = "l_face" -> "l_grade"
    [] at = "l_grade" -> "l_upscale"
    [] at = "l_upscale" -> "l_grain"
    [] at = "l_grain" -> "l_encode"
    [] at = "l_encode" -> "l_upload"

\* the order of the statements of handle_lipsync_only
LipsyncNext(at) ==
  CASE at = "l_resolve" -> "l_synth"
    [] at = "l_synth" -> "l_face"
    [] at = "l_face" -> "l_upscale"
    [] at = "l_upscale" -> "l_grade"
    [] at = "l_grade" -> "l_grain"
    [] at = "l_grain" -> "l_encode"
    [] at = "l_encode" -> "l_upload"

\* handle_video_render with the audio mix placed after the caption burn
VideoRenderNextMixLate(at) ==
  CASE at = "v_resolve" -> "v_side"
    [] at = "v_side" -> "v_synth"
    [] at = "v_synth" -> "v_face"
    [] at = "v_face" -> "v_upscale"
    [] at = "v_upscale" -> "v_captions"
    [] at = "v_captions" -> "v_mix"
    [] at = "v_mix" -> "v_grade"
    [] at = "v_grade" -> "v_grain"
    [] at = "v_grain" -> "v_encode"
    [] at = "v_encode" -> "v_thumb"
    [] at = "v_thumb" -> "v_upload"

\* the order of the statements of handle_video_render
VideoRenderNext(at) ==
  CASE at = "v_resolve" -> "v_side"
    [] at = "v_side" -> "v_synth"
    [] at = "v_synth" -> "v_face"
    [] at = "v_face" -> "v_upscale"
    [] at = "v_upscale" -> "v_mix"
    [] at = "v_mix" -> "v_captions"
    [] at = "v_captions" -> "v_grade"
    [] at = "v_grade" -> "v_grain"
    [] at = "v_grain" -> "v_encode"
    [] at = "v_encode" -> "v_thumb"
    [] at = "v_thumb" -> "v_upload"

\* a failure record without the trace
HandlerExceptNoTrace(e, at) == [success |-> FALSE, error |-> e]

\* the except branch of handler(): the failure record
HandlerExcept(e, at) == [success |-> FALSE, error |-> e, traceback |-> at]

\* the return of handler() after a job handler returned its JobResult
HandlerReturn(output_urls, metadata) ==
  [success |-> TRUE, output |-> output_urls, metadata |-> metadata,
   duration_ms |-> "elapsed"]

\* an exception leaves the job handler and the scratch directory stays
UnwindKeepingScratch(e) ==
  /\ response' = HandlerExcept(e, pc)
  /\ pc' = "returned"
  /\ UNCHANGED <<tmpdir, fs, current_output>>

\* an exception leaves the job handler: the with block removes the scratch
\* directory and handler() turns the exception into the failure record
Unwind(e) ==
  /\ response' = HandlerExcept(e, pc)
  /\ pc' = "returned"
  /\ tmpdir' = FALSE
  /\ fs' = EmptyDir
  /\ UNCHANGED current_output

\* a job handler that goes on without moving its current artifact off the
\* synthesis output
ContinueOnSynthesisOutput(files, cur, next) ==
  /\ fs' = files
  /\ current_output' = IF current_output = "" THEN cur ELSE current_output
  /\ pc' = next
  /\ UNCHANGED <<response, tmpdir>>

\* the job handler goes on to its next statement
Continue(files, cur, next) ==
  /\ fs' = files
  /\ current_output' = cur
  /\ pc' = next
  /\ UNCHANGED <<response, tmpdir>>

\* the job handler returns: the with block removes the scratch directory
Return(output_urls, metadata) ==
  /\ response' = HandlerReturn(output_urls, metadata)
  /\ pc' = "returned"
  /\ tmpdir' = FALSE
  /\ fs' = EmptyDir
  /\ UNCHANGED current_output

\* a dispatch that runs any other job type as lipsync_only
RouteByDefault(type) ==
  CASE type = "video_render" -> "v_resolve"
    [] type = "persona_build" -> "p_resolve"
    [] OTHER -> "l_resolve"

\* the if/elif chain of handler() on job_type: the job handler to enter
Route(type) ==
  CASE type = "lipsync_only" -> "l_resolve"
    [] type = "video_render" -> "v_resolve"
    [] type = "persona_build" -> "p_resolve"
    [] OTHER -> "unknown"

Handles == <<musetalk_ready, gfpgan_model, realesrgan_model>>

\* handler(job): read the input and the job type, route
Handler(job) ==
  /\ pc \in {"idle", "returned", "escaped"}
  /\ jobs_started < MaxJobs
  /\ jobs_started' = jobs_started + 1
  /\ job_input' = Get(job, "input", EmptyDict)
  /\ log' = << >>
  /\ published' = << >>
  /\ base_takes' = << >>
  /\ current_output' = ""
  /\ IF ~IsDict(job_input')
     THEN pc' = "escaped" /\ response' = NoResponse
     ELSE LET type == Get(job_input', "job_type", "lipsync_only") IN
          IF Route(type) = "unknown"
          THEN /\ pc' = "returned"
               /\ response' = HandlerExcept("Unknown job type: " \o type, "handler")
          ELSE /\ pc' = Route(type)
               /\ response' = NoResponse
  /\ UNCHANGED <<Handles, R2_ENDPOINT, faults, fs, tmpdir>>

\* a lipsync handler that takes the face restoration toggle from the tier
\* whatever the job input says
face_enhance_of_tier == Get(preset, "face_enhance", TRUE)

\* ------------------------------------------------------- handle_lipsync_only
\* face_enhance = job_input.get("face_enhance", preset.get("face_enhance", True))
face_enhance == Get(job_input, "face_enhance", Get(preset, "face_enhance", TRUE))

\* the scratch directory is made, the primary image and audio are resolved
L_Resolve ==
  /\ pc = "l_resolve"
  /\ \E oi \in {"ok", "fail"}, oa \in {"ok", "fail"} :
       LET i == resolve_input(EmptyDir, image_data, "input.png", oi)
           a == resolve_input(i.files, audio_data, "input.mp3", oa)
       IN
       IF i.raised # NoError
       THEN Spend(i.cost) /\ Unwind(i.raised)
       ELSE IF a.raised # NoError
       THEN Spend(i.cost + a.cost) /\ Unwind(a.raised)
       ELSE /\ Spend(i.cost + a.cost)
            /\ fs' = a.files
            /\ tmpdir' = TRUE
            /\ pc' = LipsyncNext(pc)
            /\ UNCHANGED <<response, current_output>>
  /\ UNCHANGED <<Handles, R2_ENDPOINT, jobs_started, job_input, log, published,
                 base_takes>>

\* Step 1: run_musetalk_inference(image_path, audio_path, lipsync_output, quality)
L_Synthesis ==
  /\ pc = "l_synth"
  /\ \E o \in SynthOutcomes :
       LET r == run_musetalk_inference(fs, musetalk_ready, "input.png", "input.mp3",
                                       "lipsync.mp4", quality, o)
       IN
       /\ Spend(r.cost)
       /\ musetalk_ready' = r.ready
       /\ log' = Append(log, Entry("synthesis", "input.png", "lipsync.mp4",
                                   IF r.raised # NoError THEN "raised"
                                   ELSE IF Exists(r.files, "lipsync.mp4")
                                        THEN r.tried[Len(r.tried)] ELSE "absent",
                                   r.tried) @@ [config |-> r.config, setup |-> r.setup])
       /\ IF r.raised # NoError
          THEN Unwind(r.raised)
          ELSE Continue(r.files, "lipsync.mp4", LipsyncNext(pc))
  /\ UNCHANGED <<gfpgan_model, realesrgan_model, R2_ENDPOINT, jobs_started,
                 job_input, published, base_takes>>

\* Step 2: enhance_face_in_video(current_output, enhanced_output)
L_FaceEnhance ==
  /\ pc = "l_face"
  /\ IF face_enhance
     THEN \E o \in NeuralOutcomes :
            LET r == enhance_face_in_video(fs, gfpgan_model, current_output,
                                           "enhanced.mp4", o)
            IN
            /\ Spend(r.cost)
            /\ gfpgan_model' = r.model
            /\ log' = Append(log, Entry("face_enhance", current_output,
                                        "enhanced.mp4", r.res, << >>)
                                   @@ [setup |-> r.setup])
            /\ IF r.raised # NoError
               THEN Unwind(r.raised)
               ELSE Continue(r.files, "enhanced.mp4", LipsyncNext(pc))
     ELSE /\ Continue(fs, current_output, LipsyncNext(pc))
          /\ UNCHANGED <<faults, gfpgan_model, log>>
  /\ UNCHANGED <<musetalk_ready, realesrgan_model, R2_ENDPOINT, jobs_started,
                 job_input, published, base_takes>>

\* Step 3: upscale_video_realesrgan(current_output, upscaled_output, ...)
L_Upscale ==
  /\ pc = "l_upscale"
  /\ IF Get(preset, "upscale", FALSE)
     THEN \E o \in NeuralOutcomes :
            LET r == upscale_video_realesrgan(fs, realesrgan_model, current_output,
                       "upscaled.mp4", preset["upscale_factor"],
                       Get(preset, "temporal_smoothing", FALSE), o)
            IN
            /\ Spend(r.cost)
            /\ realesrgan_model' = r.model
            /\ log' = Append(log, Entry("upscale", current_output, "upscaled.mp4",
                                        r.res, << >>)
                                   @@ [setup |-> r.setup])
            /\ IF r.raised # NoError
               THEN Unwind(r.raised)
               ELSE Continue(r.files, "upscaled.mp4", LipsyncNext(pc))
     ELSE /\ Continue(fs, current_output, LipsyncNext(pc))
          /\ UNCHANGED <<faults, realesrgan_model, log>>
  /\ UNCHANGED <<musetalk_ready, gfpgan_model, R2_ENDPOINT, jobs_started,
                 job_input, published, base_takes>>

\* Step 4: apply_color_grading(current_output, graded_output, style="cinematic")
L_ColorGrade ==
  /\ pc = "l_grade"
  /\ IF Get(preset, "color_grading", FALSE)
     THEN \E o \in {"ok", "fail"} :
            LET r == apply_color_grading(fs, current_output, "graded.mp4", o) IN
            /\ Spend(r.cost)
            /\ log' = Append(log, Entry("color_grade", current_output, "graded.mp4",
                                        r.res, << >>))
            /\ IF r.raised # NoError
               THEN Unwind(r.raised)
               ELSE Continue(r.files, "graded.mp4", LipsyncNext(pc))
     ELSE /\ Continue(fs, current_output, LipsyncNext(pc))
          /\ UNCHANGED <<faults, log>>
  /\ UNCHANGED <<Handles, R2_ENDPOINT, jobs_started, job_input, published,
                 base_takes>>

\* Step 5: add_film_grain(current_output, final_output, ...), or the copy of
\* current_output to final_output when the preset has no grain
L_FilmGrain ==
  /\ pc = "l_grain"
  /\ IF Get(preset, "film_grain", 0) > 0
     THEN \E o \in {"ok", "fail"} :
            LET r == add_film_grain(fs, current_output, "output.mp4", o) IN
            /\ Spend(r.cost)
            /\ log' = Append(log, Entry("film_grain", current_output, "output.mp4",
                                        r.res, << >>))
            /\ IF r.raised # NoError
               THEN Unwind(r.raised)
               ELSE Continue(r.files, current_output, LipsyncNext(pc))
     ELSE /\ IF Exists(fs, current_output)
             THEN Continue(CopyFile(fs, current_output, "output.mp4"),
                           current_output, LipsyncNext(pc))
             ELSE Unwind("FileNotFoundError")
          /\ UNCHANGED <<faults, log>>
  /\ UNCHANGED <<Handles, R2_ENDPOINT, jobs_started, job_input, published,
                 base_takes>>

\* the final encode of final_output into final_encoded.mp4
L_FinalEncode ==
  /\ pc = "l_encode"
  /\ \E o \in {"ok", "fail"} :
       LET r == final_encode(fs, "output.mp4", "final_encoded.mp4", o) IN
       /\ Spend(r.cost)
       /\ log' = Append(log, Entry("final_encode", "output.mp4",
                                   "final_encoded.mp4", r.res, << >>)
                              @@ [cmd |-> final_encode_cmd(preset, "output.mp4",
                                                           "final_encoded.mp4")])
       /\ IF r.raised # NoError
          THEN Unwind(r.raised)
          ELSE Continue(r.files, current_output, LipsyncNext(pc))
  /\ UNCHANGED <<Handles, R2_ENDPOINT, jobs_started, job_input, published,
                 base_takes>>

\* the metadata of handle_lipsync_only's JobResult
LipsyncMetadata ==
  [quality |-> quality,
   preset |-> preset,
   face_enhance |-> face_enhance,
   upscaled |-> Get(preset, "upscale", FALSE),
   upscale_factor |-> Get(preset, "upscale_factor", 1),
   color_graded |-> Get(preset, "color_grading", FALSE),
   job_id |-> job_id,
   processing_ms |-> "elapsed"]

\* upload of final_encoded.mp4, the JobResult, handler's return record
L_Upload ==
  /\ pc = "l_upload"
  /\ \E o \in {"ok", "fail"} :
       LET u == upload_to_r2(fs, R2_ENDPOINT, "final_encoded.mp4",
                             <<"videos", job_id, "output.mp4">>, o)
       IN
       /\ Spend(u.cost)
       /\ log' = Append(log, Entry("publish", "final_encoded.mp4", "video",
                                   IF u.raised # NoError THEN "raised" ELSE "primary",
                                   << >>))
       /\ published' = published \o u.stored
       /\ IF u.raised # NoError
          THEN Unwind(u.raised)
          ELSE Return([video |-> u.url], LipsyncMetadata)
  /\ UNCHANGED <<Handles, R2_ENDPOINT, jobs_started, job_input, base_takes>>

\* ------------------------------------------------------- handle_video_render
\* the scratch directory is made, the primary image and audio are resolved
V_Resolve ==
  /\ pc = "v_resolve"
  /\ \E oi \in {"ok", "fail"}, oa \in {"ok", "fail"} :
       LET i == resolve_input(EmptyDir, image_data, "image.png", oi)
           a == resolve_input(i.files, audio_data, "voice.mp3", oa)
       IN
       IF i.raised # NoError
       THEN Spend(i.cost) /\ Unwind(i.raised)
       ELSE IF a.raised # NoError
       THEN Spend(i.cost + a.cost) /\ Unwind(a.raised)
       ELSE /\ Spend(i.cost + a.cost)
            /\ fs' = a.files
            /\ tmpdir' = TRUE
            /\ pc' = VideoRenderNext(pc)
            /\ UNCHANGED <<response, current_output>>
  /\ UNCHANGED <<Handles, R2_ENDPOINT, jobs_started, job_input, log, published,
                 base_takes>>

\* the locals of handle_video_render for the secondary audio
music_path == IF Get(job_input, "music_url", None) # None THEN "music.mp3" ELSE None
ambience_path == IF Get(job_input, "ambience_url", None) # None THEN "ambience.mp3" ELSE None
sfx_tracks == IF Get(job_input, "sfx_tracks", << >>) # << >> THEN <<"sfx_0.mp3">> ELSE << >>

\* download of music, ambience and the sound-effect tracks, none of them
\* inside a try: sfx["url"] raises KeyError when the cue has no url
V_SideInputs ==
  /\ pc = "v_side"
  /\ \E om \in {"ok", "fail"}, oa \in {"ok", "fail"}, ox \in {"ok", "fail"} :
       LET m == IF music_path # None
                THEN download_file(fs, job_input["music_url"], "music.mp3", om)
                ELSE [files |-> fs, raised |-> NoError, cost |-> 0]
           a == IF ambience_path # None
                THEN download_file(m.files, job_input["ambience_url"], "ambience.mp3", oa)
                ELSE [files |-> m.files, raised |-> NoError, cost |-> 0]
           x == IF sfx_tracks = << >>
                THEN [files |-> a.files, raised |-> NoError, cost |-> 0]
                ELSE IF "url" \notin DOMAIN job_input["sfx_tracks"][1]
                THEN [files |-> a.files, raised |-> "KeyError", cost |-> 0]
                ELSE download_file(a.files, job_input["sfx_tracks"][1]["url"],
                                   "sfx_0.mp3", ox)
       IN
       IF m.raised # NoError
       THEN Spend(m.cost) /\ Unwind(m.raised)
       ELSE IF a.raised # NoError
       THEN Spend(m.cost + a.cost) /\ Unwind(a.raised)
       ELSE IF x.raised # NoError
       THEN Spend(m.cost + a.cost + x.cost) /\ Unwind(x.raised)
       ELSE Spend(m.cost + a.cost + x.cost) /\ Continue(x.files, current_output, VideoRenderNext(pc))
  /\ UNCHANGED <<Handles, R2_ENDPOINT, jobs_started, job_input, log, published,
                 base_takes>>

\* Step 1: run_musetalk_inference(image_path, voice_path, lipsync_output, quality)
V_Synthesis ==
  /\ pc = "v_synth"
  /\ \E o \in SynthOutcomes :
       LET r == run_musetalk_inference(fs, musetalk_ready, "image.png", "voice.mp3",
                                       "lipsync.mp4", quality, o)
       IN
       /\ Spend(r.cost)
       /\ musetalk_ready' = r.ready
       /\ log' = Append(log, Entry("synthesis", "image.png", "lipsync.mp4",
                                   IF r.raised # NoError THEN "raised"
                                   ELSE IF Exists(r.files, "lipsync.mp4")
                                        THEN r.tried[Len(r.tried)] ELSE "absent",
                                   r.tried) @@ [config |-> r.config, setup |-> r.setup])
       /\ IF r.raised # NoError
          THEN Unwind(r.raised)
          ELSE Continue(r.files, "lipsync.mp4", VideoRenderNext(pc))
  /\ UNCHANGED <<gfpgan_model, realesrgan_model, R2_ENDPOINT, jobs_started,
                 job_input, published, base_takes>>

\* Step 2: face enhancement when preset.get("face_enhance", True)
V_FaceEnhance ==
  /\ pc = "v_face"
  /\ IF Get(preset, "face_enhance", TRUE)
     THEN \E o \in NeuralOutcomes :
            LET r == enhance_face_in_video(fs, gfpgan_model, current_output,
                                           "enhanced.mp4", o)
            IN
            /\ Spend(r.cost)
            /\ gfpgan_model' = r.model
            /\ log' = Append(log, Entry("face_enhance", current_output,
                                        "enhanced.mp4", r.res, << >>)
                                   @@ [setup |-> r.setup])
            /\ IF r.raised # NoError
               THEN Unwind(r.raised)
               ELSE Continue(r.files, "enhanced.mp4", VideoRenderNext(pc))
     ELSE /\ Continue(fs, current_output, VideoRenderNext(pc))
          /\ UNCHANGED <<faults, gfpgan_model, log>>
  /\ UNCHANGED <<musetalk_ready, realesrgan_model, R2_ENDPOINT, jobs_started,
                 job_input, published, base_takes>>

\* Step 3: upscaling when preset.get("upscale", False)
V_Upscale ==
  /\ pc = "v_upscale"
  /\ IF Get(preset, "upscale", FALSE)
     THEN \E o \in NeuralOutcomes :
            LET r == upscale_video_realesrgan(fs, realesrgan_model, current_output,
                       "upscaled.mp4", preset["upscale_factor"],
                       Get(preset, "temporal_smoothing", FALSE), o)
            IN
            /\ Spend(r.cost)
            /\ realesrgan_model' = r.model
            /\ log' = Append(log, Entry("upscale", current_output, "upscaled.mp4",
                                        r.res, << >>)
                                   @@ [setup |-> r.setup])
            /\ IF r.raised # NoError
               THEN Unwind(r.raised)
               ELSE Continue(r.files, "upscaled.mp4", VideoRenderNext(pc))
     ELSE /\ Continue(fs, current_output, VideoRenderNext(pc))
          /\ UNCHANGED <<faults, realesrgan_model, log>>
  /\ UNCHANGED <<musetalk_ready, gfpgan_model, R2_ENDPOINT, jobs_started,
                 job_input, published, base_takes>>

\* Step 4: the ffprobe of the voice duration, then mix_audio(...)
V_AudioMix ==
  /\ pc = "v_mix"
  /\ \E op \in ProbeOutcomes, o \in ToolOutcomes :
       LET d == probe_duration(op)
           r == mix_audio(fs, "voice.mp3", music_path, ambience_path, sfx_tracks,
                          "mixed.aac", o)
       IN
       IF d.raised # NoError
       THEN Spend(d.cost) /\ Unwind(d.raised) /\ UNCHANGED log
       ELSE /\ Spend(d.cost + r.cost)
            /\ log' = Append(log, Entry("audio_mix", "voice.mp3", "mixed.aac",
                                        r.res, << >>)
                                   @@ [graph |-> mix_filter_graph(fs, "voice.mp3",
                                                   music_path, ambience_path,
                                                   sfx_tracks)])
            /\ IF r.raised # NoError
               THEN Unwind(r.raised)
               ELSE Continue(r.files, current_output, VideoRenderNext(pc))
  /\ UNCHANGED <<Handles, R2_ENDPOINT, jobs_started, job_input, published,
                 base_takes>>

\* Step 5: burn_captions(...) when the caption list is not empty
V_Captions ==
  /\ pc = "v_captions"
  /\ LET captions == Get(job_input, "captions", << >>) IN
     IF captions # << >>
     THEN \E o \in ToolOutcomes :
            LET r == burn_captions(fs, current_output, captions, "captioned.mp4", o) IN
            /\ Spend(r.cost)
            /\ log' = Append(log, Entry("caption_burn", current_output,
                                        "captioned.mp4", r.res, << >>)
                                   @@ [filters |->
                                         drawtext_filters(captions,
                                           Get(job_input, "caption_style", EmptyDict))])
            /\ IF r.raised # NoError
               THEN Unwind(r.raised)
               ELSE Continue(r.files, "captioned.mp4", VideoRenderNext(pc))
     ELSE /\ Continue(fs, current_output, VideoRenderNext(pc))
          /\ UNCHANGED <<faults, log>>
  /\ UNCHANGED <<Handles, R2_ENDPOINT, jobs_started, job_input, published,
                 base_takes>>

\* Step 6: color grading when preset.get("color_grading", False)
V_ColorGrade ==
  /\ pc = "v_grade"
  /\ IF Get(preset, "color_grading", FALSE)
     THEN \E o \in {"ok", "fail"} :
            LET r == apply_color_grading(fs, current_output, "graded.mp4", o) IN
            /\ Spend(r.cost)
            /\ log' = Append(log, Entry("color_grade", current_output, "graded.mp4",
                                        r.res, << >>))
            /\ IF r.raised # NoError
               THEN Unwind(r.raised)
               ELSE Continue(r.files, "graded.mp4", VideoRenderNext(pc))
     ELSE /\ Continue(fs, current_output, VideoRenderNext(pc))
          /\ UNCHANGED <<faults, log>>
  /\ UNCHANGED <<Handles, R2_ENDPOINT, jobs_started, job_input, published,
                 base_takes>>

\* Step 7, first half: film grain when preset.get("film_grain", 0) > 0
V_FilmGrain ==
  /\ pc = "v_grain"
  /\ IF Get(preset, "film_grain", 0) > 0
     THEN \E o \in {"ok", "fail"} :
            LET r == add_film_grain(fs, current_output, "grain.mp4", o) IN
            /\ Spend(r.cost)
            /\ log' = Append(log, Entry("film_grain", current_output, "grain.mp4",
                                        r.res, << >>))
            /\ IF r.raised # NoError
               THEN Unwind(r.raised)
               ELSE Continue(r.files, "grain.mp4", VideoRenderNext(pc))
     ELSE /\ Continue(fs, current_output, VideoRenderNext(pc))
          /\ UNCHANGED <<faults, log>>
  /\ UNCHANGED <<Handles, R2_ENDPOINT, jobs_started, job_input, published,
                 base_takes>>

\* Step 7, second half: final encode of current_video with mixed_audio
V_FinalEncode ==
  /\ pc = "v_encode"
  /\ \E o \in {"ok", "fail"} :
       LET r == final_mux_encode(fs, current_output, "mixed.aac", "final.mp4", o) IN
       /\ Spend(r.cost)
       /\ log' = Append(log, Entry("final_encode", current_output, "final.mp4",
                                   r.res, << >>)
                              @@ [audio |-> "mixed.aac",
                                  cmd |-> final_mux_encode_cmd(preset, current_output,
                                                               "mixed.aac", "final.mp4")])
       /\ IF r.raised # NoError
          THEN Unwind(r.raised)
          ELSE Continue(r.files, current_output, VideoRenderNext(pc))
  /\ UNCHANGED <<Handles, R2_ENDPOINT, jobs_started, job_input, published,
                 base_takes>>

\* thumbnail: one frame of final_output at time zero
V_Thumbnail ==
  /\ pc = "v_thumb"
  /\ \E o \in ToolOutcomes :
       LET r == extract_thumbnail(fs, "final.mp4", "thumbnail.jpg", o) IN
       /\ Spend(r.cost)
       /\ log' = Append(log, Entry("thumbnail", "final.mp4", "thumbnail.jpg",
                                   r.res, << >>))
       /\ IF r.raised # NoError
          THEN Unwind(r.raised)
          ELSE Continue(r.files, current_output, VideoRenderNext(pc))
  /\ UNCHANGED <<Handles, R2_ENDPOINT, jobs_started, job_input, published,
                 base_takes>>

\* the metadata of handle_video_render's JobResult
VideoRenderMetadata ==
  [job_id |-> job_id,
   quality |-> quality,
   preset |-> preset,
   upscaled |-> Get(preset, "upscale", FALSE),
   upscale_factor |-> Get(preset, "upscale_factor", 1),
   color_graded |-> Get(preset, "color_grading", FALSE),
   duration |-> "total_duration",
   format |-> Get(job_input, "format", [width |-> 1080, height |-> 1920, fps |-> 30]),
   processing_ms |-> "elapsed"]

\* upload of the video, then of the thumbnail, the JobResult, the return
V_Upload ==
  /\ pc = "v_upload"
  /\ \E ov \in {"ok", "fail"}, ot \in {"ok", "fail"} :
       LET v == upload_to_r2(fs, R2_ENDPOINT, "final.mp4",
                             <<"videos", job_id, "final.mp4">>, ov)
           t == upload_to_r2(fs, R2_ENDPOINT, "thumbnail.jpg",
                             <<"videos", job_id, "thumbnail.jpg">>, ot)
       IN
       IF v.raised # NoError
       THEN /\ Spend(v.cost)
            /\ log' = Append(log, Entry("publish", "final.mp4", "video", "raised", << >>))
            /\ published' = published
            /\ Unwind(v.raised)
       ELSE /\ Spend(v.cost + t.cost)
            /\ log' = Append(log, Entry("publish", "final.mp4", "video", "primary", << >>))
            /\ published' = published \o v.stored \o t.stored
            /\ IF t.raised # NoError
               THEN Unwind(t.raised)
               ELSE Return([video |-> v.url, thumbnail |-> t.url], VideoRenderMetadata)
  /\ UNCHANGED <<Handles, R2_ENDPOINT, jobs_started, job_input, base_takes>>

\* ------------------------------------------------------ handle_persona_build
\* a take list that is empty when the job gives none
takes_to_generate_or_none == Get(job_input, "takes_to_generate", << >>)

takes_to_generate ==
  Get(job_input, "takes_to_generate", <<[emotion |-> "neutral", angle |-> "front"]>>)

TakeFile(i) == IF i = 0 THEN "take_0.mp4" ELSE "take_1.mp4"

\* the scratch directory is made and the primary image resolved
P_Resolve ==
  /\ pc = "p_resolve"
  /\ \E oi \in {"ok", "fail"} :
       LET i == resolve_input(EmptyDir, Get(job_input, "primary_image", None),
                              "primary.png", oi)
       IN
       /\ Spend(i.cost)
       /\ IF i.raised # NoError
          THEN Unwind(i.raised)
          ELSE /\ fs' = i.files
               /\ tmpdir' = TRUE
               /\ pc' = "p_take"
               /\ UNCHANGED <<response, current_output>>
  /\ UNCHANGED <<Handles, R2_ENDPOINT, jobs_started, job_input, log, published,
                 base_takes>>

\* one turn of the loop over takes_to_generate: the 5 s still video of the
\* primary image (check=True), its upload, the entry of base_takes; after
\* the last take, the JobResult and the return
P_Take ==
  /\ pc = "p_take"
  /\ LET i == Len(base_takes) IN
     IF i < Len(takes_to_generate)
     THEN \E og \in {"ok", "fail"}, ou \in {"ok", "fail"} :
            LET persona_id == Get(job_input, "persona_id", None)
                take_spec == takes_to_generate[i + 1]
                take_id == <<persona_id, "take", i>>
                files == IF og = "ok"
                         THEN WriteFile(fs, TakeFile(i), fs["primary.png"] \o <<"still_5s">>)
                         ELSE fs
                u == upload_to_r2(files, R2_ENDPOINT, TakeFile(i),
                                  <<"personas", persona_id, "takes", take_id>>, ou)
            IN
            IF og # "ok"
            THEN /\ Spend(1)
                 /\ log' = Append(log, Entry("idle_take", "primary.png", TakeFile(i),
                                             "raised", << >>))
                 /\ Unwind("CalledProcessError")
                 /\ UNCHANGED <<published, base_takes>>
            ELSE /\ Spend(u.cost)
                 /\ log' = Append(log, Entry("idle_take", "primary.png", TakeFile(i),
                                             "primary", << >>))
                 /\ published' = published \o u.stored
                 /\ IF u.raised # NoError
                    THEN Unwind(u.raised) /\ UNCHANGED base_takes
                    ELSE /\ base_takes' = Append(base_takes,
                              [id |-> take_id,
                               emotion |-> Get(take_spec, "emotion", "neutral"),
                               angle |-> Get(take_spec, "angle", "front"),
                               video_url |-> u.url,
                               duration |-> 5])
                         /\ Continue(files, current_output, "p_take")
     ELSE /\ Return(EmptyDict, [persona_id |-> Get(job_input, "persona_id", None),
                                base_takes |-> base_takes])
          /\ UNCHANGED <<faults, log, published, base_takes>>
  /\ UNCHANGED <<Handles, R2_ENDPOINT, jobs_started, job_input>>

Next ==
  \/ \E job \in Jobs : Handler(job)
  \/ L_Resolve
  \/ L_Synthesis
  \/ L_FaceEnhance
  \/ L_Upscale
  \/ L_ColorGrade
  \/ L_FilmGrain
  \/ L_FinalEncode
  \/ L_Upload
  \/ V_Resolve
  \/ V_SideInputs
  \/ V_Synthesis
  \/ V_FaceEnhance
  \/ V_Upscale
  \/ V_AudioMix
  \/ V_Captions
  \/ V_ColorGrade
  \/ V_FilmGrain
  \/ V_FinalEncode
  \/ V_Thumbnail
  \/ V_Upload
  \/ P_Resolve
  \/ P_Take

Spec == Init /\ [][Next]_vars

\* the statements of a running job handler: Python runs them one after the
\* other, and each external call returns or raises in finite time
JobStep ==
  \/ L_Resolve \/ L_Synthesis \/ L_FaceEnhance \/ L_Upscale \/ L_ColorGrade
  \/ L_FilmGrain \/ L_FinalEncode \/ L_Upload
  \/ V_Resolve \/ V_SideInputs \/ V_Synthesis \/ V_FaceEnhance \/ V_Upscale
  \/ V_AudioMix \/ V_Captions \/ V_ColorGrade \/ V_FilmGrain \/ V_FinalEncode
  \/ V_Thumbnail \/ V_Upload
  \/ P_Resolve \/ P_Take

\* a started job handler keeps running; the arrival of jobs is not forced
LiveSpec == Spec /\ WF_vars(JobStep)

\* ======================================================================
\* Properties
\* ======================================================================
job_type == Get(job_input, "job_type", "lipsync_only")

InLipsync == jobs_started > 0 /\ IsDict(job_input) /\ job_type = "lipsync_only"
InVideoRender == jobs_started > 0 /\ IsDict(job_input) /\ job_type = "video_render"

Succeeded == pc = "returned" /\ "success" \in DOMAIN response /\ response.success
Failed == pc = "returned" /\ "success" \in DOMAIN response /\ ~response.success

Rank(order, s) == CHOOSE k \in 1..Len(order) : order[k] = s

\* the logged stage calls follow `order`: only stages of the order, each at
\* most once, never one placed earlier after one placed later, and no call
\* after a call that raised
FollowsOrder(order) ==
  /\ \A i \in 1..Len(log) : \E k \in 1..Len(order) : order[k] = log[i].stage
  /\ \A i, j \in 1..Len(log) :
       i < j => Rank(order, log[i].stage) < Rank(order, log[j].stage)
  /\ \A i \in 1..(Len(log) - 1) : log[i].res # "raised"

\* the stage the handler is about to run comes after every stage that ran
NextComesAfter(order, stageAt) ==
  pc \in DOMAIN stageAt =>
    \A i \in 1..Len(log) : Rank(order, log[i].stage) < Rank(order, stageAt[pc])

LipsyncOrder ==
  <<"synthesis", "face_enhance", "upscale", "color_grade", "film_grain",
    "final_encode", "publish">>

LipsyncStageAt ==
  [l_synth |-> "synthesis", l_face |-> "face_enhance", l_upscale |-> "upscale",
   l_grade |-> "color_grade", l_grain |-> "film_grain", l_encode |-> "final_encode",
   l_upload |-> "publish"]

\* C1: in a lipsync_only job the stages that run follow the order synthesis,
\* face restoration, upscale, color grading, film grain, final encode,
\* publication; a stage starts only when every earlier call has returned,
\* none runs twice, and a skipped stage is not run later.
C1_LipsyncStageOrder ==
  InLipsync => FollowsOrder(LipsyncOrder) /\ NextComesAfter(LipsyncOrder, LipsyncStageAt)

\* a cinema lipsync job that ran all seven stages and returned success
C1_Witness ==
  /\ InLipsync /\ Succeeded
  /\ [i \in 1..Len(log) |-> log[i].stage] = LipsyncOrder

VideoRenderOrder ==
  <<"synthesis", "face_enhance", "upscale", "audio_mix", "caption_burn",
    "color_grade", "film_grain", "final_encode", "thumbnail", "publish">>

VideoRenderStageAt ==
  [v_synth |-> "synthesis", v_face |-> "face_enhance", v_upscale |-> "upscale",
   v_mix |-> "audio_mix", v_captions |-> "caption_burn", v_grade |-> "color_grade",
   v_grain |-> "film_grain", v_encode |-> "final_encode", v_thumb |-> "thumbnail",
   v_upload |-> "publish"]

VisualStages ==
  {"synthesis", "face_enhance", "upscale", "caption_burn", "color_grade", "film_grain"}

Logged(stage) == \E i \in 1..Len(log) : log[i].stage = stage

\* the job has gone beyond the place of `stage` in the order
Beyond(order, stageAt, stage) ==
  \/ pc \in DOMAIN stageAt /\ Rank(order, stageAt[pc]) > Rank(order, stage)
  \/ \E i \in 1..Len(log) : Rank(order, log[i].stage) > Rank(order, stage)

\* the output of the last visual stage called before entry i
LastVisualBefore(i) ==
  LET k == CHOOSE k \in 1..(i - 1) :
             /\ log[k].stage \in VisualStages
             /\ \A m \in (k + 1)..(i - 1) : log[m].stage \notin VisualStages
  IN  log[k].dst

\* C2: in a video_render job the stages that run follow the order synthesis,
\* face restoration, upscale, audio mix, caption burn, color grading, film
\* grain, final encode, thumbnail, publication; the audio mix is run by every
\* job that goes beyond it, whatever the tier; caption burn is run exactly
\* when the caption list is not empty; the final encode reads its video from
\* the last visual stage and its audio from the audio mix's output.
C2_VideoRenderStageOrder ==
  InVideoRender =>
    /\ FollowsOrder(VideoRenderOrder)
    /\ NextComesAfter(VideoRenderOrder, VideoRenderStageAt)
    /\ Beyond(VideoRenderOrder, VideoRenderStageAt, "audio_mix") => Logged("audio_mix")
    /\ Logged("caption_burn") => Get(job_input, "captions", << >>) # << >>
    /\ Beyond(VideoRenderOrder, VideoRenderStageAt, "caption_burn")
         => (Logged("caption_burn") <=> Get(job_input, "captions", << >>) # << >>)
    /\ \A i \in 1..Len(log) :
         log[i].stage = "final_encode" =>
           /\ log[i].src = LastVisualBefore(i)
           /\ \E m \in 1..(i - 1) :
                log[m].stage = "audio_mix" /\ log[m].dst = log[i].audio

\* a cinema video_render job with captions that ran all ten stages
C2_Witness ==
  /\ InVideoRender /\ Succeeded
  /\ [i \in 1..Len(log) |-> log[i].stage] = VideoRenderOrder

OptionalStages == {"face_enhance", "upscale", "color_grade", "film_grain"}

MandatoryStages == {"synthesis", "final_encode"}

\* the log entry a step appends, if it appends one
Appended == IF Len(log') = Len(log) + 1 THEN {log'[Len(log')]} ELSE {}

\* what a stage's primary method adds to the content of its input
StageTag(stage) ==
  CASE stage = "face_enhance" -> "gfpgan"
    [] stage = "upscale" -> UpscaleTag(preset["upscale_factor"],
                                       Get(preset, "temporal_smoothing", FALSE))
    [] stage = "caption_burn" -> "drawtext"
    [] stage = "color_grade" -> "grade_cinematic"
    [] stage = "film_grain" -> "film_grain"

\* the content the visual artifact must have after the first n stage calls:
\* the synthesis result, then one transformation per stage whose primary
\* method produced its output, and nothing for a stage that copied forward
RECURSIVE VisualContent(_)
VisualContent(n) ==
  IF n = 0 THEN << >>
  ELSE IF log[n].stage = "synthesis" THEN <<image_data, audio_data, log[n].res>>
  ELSE IF log[n].stage \in VisualStages /\ log[n].res = "primary"
       THEN VisualContent(n - 1) \o <<StageTag(log[n].stage)>>
       ELSE VisualContent(n - 1)

\* the bytes behind the video location of a successful response
FinalVideo ==
  IF response.output.video.scheme = "data"
  THEN response.output.video.body
  ELSE LET k == CHOOSE k \in 1..Len(published) :
                  published[k].key = response.output.video.key
       IN  published[k].body

DegradesInPlace ==
  \A e \in Appended :
    e.stage \in OptionalStages /\ Exists(fs, e.src) =>
      /\ e.res \in {"primary", "copied"}
      /\ pc' # "returned"
      /\ response' = NoResponse
      /\ fs'[e.src] = fs[e.src]
      /\ e.res = "copied" => fs'[e.dst] = fs[e.src]

FinalVideoIsPipelineOutput ==
  Succeeded /\ (InLipsync \/ InVideoRender) =>
    LET v == VisualContent(Len(log)) IN
    /\ Len(FinalVideo) > Len(v)
    /\ SubSeq(FinalVideo, 1, Len(v)) = v

\* C3: when face restoration, upscale, color grading or film grain fails on
\* an input that exists, the stage returns with an output equal to its input
\* and the job goes on; the video of a successful job is the synthesis
\* result carried through the stages, unchanged by those that failed.
C3_OptionalStageCopiesForward ==
  [][DegradesInPlace]_vars /\ []FinalVideoIsPipelineOutput

\* a job that returned success although its face restoration failed
C3_Witness ==
  /\ Succeeded /\ (InLipsync \/ InVideoRender)
  /\ \E i \in 1..Len(log) : log[i].stage = "face_enhance" /\ log[i].res = "copied"

Applied(stage) == \E i \in 1..Len(log) : log[i].stage = stage /\ log[i].res = "primary"

StageFlag ==
  [face_enhance |-> "face_enhance", upscale |-> "upscaled",
   color_grade |-> "color_graded", film_grain |-> "film_grain"]

\* C4: in the metadata of a successful lipsync_only or video_render job,
\* the flag of an optional stage is true exactly when the stage's primary
\* method produced its artifact (stated for the flags the record carries).
C4_FlagsReportApplied ==
  Succeeded /\ (InLipsync \/ InVideoRender) =>
    \A s \in OptionalStages :
      StageFlag[s] \in DOMAIN response.metadata =>
        (response.metadata[StageFlag[s]] <=> Applied(s))

Tried(i, method) == \E k \in 1..Len(log[i].tried) : log[i].tried[k] = method

\* C5: a job fails at the synthesis stage only after the static mux was
\* attempted and failed, whatever failed in the primary model's setup or
\* inference.
C5_FatalOnlyAfterStaticMux ==
  \A i \in 1..Len(log) :
    log[i].stage = "synthesis" /\ log[i].res = "raised" => Tried(i, "static_mux")

\* C6: the static mux is used only after the alternate neural model was
\* attempted, whatever the failure of the primary model.
C6_AlternateBeforeStaticMux ==
  \A i \in 1..Len(log) :
    log[i].stage = "synthesis" =>
      \A k \in 1..Len(log[i].tried) :
        log[i].tried[k] = "static_mux" =>
          \E m \in 1..(k - 1) : log[i].tried[m] = "wav2lip"

\* C7: when the synthesis or the final encode raises, no stage runs after
\* it, nothing is published, and the response is a failure record with a
\* non-empty error, a trace and no output.
C7_MandatoryFailureUnwinds ==
  \A i \in 1..Len(log) :
    log[i].stage \in MandatoryStages /\ log[i].res = "raised" =>
      /\ i = Len(log)
      /\ pc = "returned"
      /\ published = << >>
      /\ DOMAIN response = {"success", "error", "traceback"}
      /\ ~response.success
      /\ response.error # ""
      /\ response.traceback \in {"l_synth", "v_synth", "l_encode", "v_encode"}

\* the synthesis went through the primary model and the static mux, and the
\* job was failed
C7_Witness ==
  /\ Failed
  /\ log # << >>
  /\ log[Len(log)].stage = "synthesis"
  /\ log[Len(log)].tried = <<"musetalk", "static_mux">>
  /\ log[Len(log)].res = "raised"

ResolveSteps == {"l_resolve", "v_resolve"}

\* C8: a lipsync_only or video_render job whose primary image or audio is
\* absent or cannot be fetched or decoded fails before the pipeline: no
\* stage is called, nothing is published, the response is a failure.
C8_InputFailureBeforePipeline ==
  /\ InLipsync /\ pc \in DOMAIN LipsyncStageAt
       => Exists(fs, "input.png") /\ Exists(fs, "input.mp3")
  /\ InVideoRender /\ pc \in DOMAIN VideoRenderStageAt \cup {"v_side"}
       => Exists(fs, "image.png") /\ Exists(fs, "voice.mp3")
  /\ (InLipsync \/ InVideoRender) /\ (image_data = None \/ audio_data = None)
       => /\ log = << >>
          /\ pc \in ResolveSteps \cup {"returned"}
          /\ pc = "returned" => Failed /\ response.traceback \in ResolveSteps
  /\ Failed /\ response.traceback \in ResolveSteps
       => log = << >> /\ published = << >> /\ response.error # ""

\* a lipsync_only job failed on an image URL that could not be fetched
C8_Witness ==
  /\ InLipsync /\ Failed
  /\ image_data = "http://image"
  /\ response.error = "URLError"
  /\ response.traceback = "l_resolve"
  /\ log = << >>

\* C9: a lipsync_only or video_render job fails only when its primary image
\* or audio could not be resolved or when the synthesis or the final encode
\* raised.
C9_OnlyInputsAndMandatoryStagesFail ==
  (InLipsync \/ InVideoRender) /\ Failed =>
    \/ response.traceback \in ResolveSteps
    \/ /\ log # << >>
       /\ log[Len(log)].stage \in MandatoryStages
       /\ log[Len(log)].res = "raised"

\* C10: every invocation of handler returns a record with a boolean
\* success, with output, metadata and elapsed time on success and a
\* non-empty error on failure; no exception leaves handler.
C10_HandlerAlwaysReturnsRecord ==
  /\ pc # "escaped"
  /\ pc = "returned" =>
       /\ "success" \in DOMAIN response
       /\ response.success \in BOOLEAN
       /\ response.success => {"output", "metadata", "duration_ms"} \subseteq DOMAIN response
       /\ ~response.success => "error" \in DOMAIN response /\ response.error # ""

Resting == pc \in {"idle", "returned", "escaped"}

EntrySteps == {"l_resolve", "v_resolve", "p_resolve"}

\* C11: the scratch directory exists while a job handler is past its input
\* resolution and neither it nor any file in it exists once the handler has
\* returned or raised, for every job type and every exit; a job that starts
\* finds no file of an earlier job.
C11_ScratchRemovedOnEveryExit ==
  /\ Resting => ~tmpdir /\ fs = EmptyDir
  /\ pc \in EntrySteps => ~tmpdir /\ fs = EmptyDir
  /\ ~Resting /\ pc \notin EntrySteps => tmpdir
  /\ ~tmpdir => fs = EmptyDir

\* a second job has failed at its synthesis, after files were written to
\* its scratch directory, and the directory is gone
C11_Witness ==
  /\ jobs_started = 2
  /\ Failed
  /\ log # << >>
  /\ log[Len(log)].stage = "synthesis" /\ log[Len(log)].res = "raised"
  /\ ~tmpdir
  /\ fs = EmptyDir

ToolStages == {"audio_mix", "caption_burn"}

MixOrCaptionFailureCopiesForward ==
  \A e \in Appended :
    e.stage \in ToolStages /\ Exists(fs, e.src) =>
      /\ e.res \in {"primary", "copied"}
      /\ pc' = VideoRenderNext(pc)
      /\ response' = NoResponse
      /\ e.res = "copied" => fs'[e.dst] = fs[e.src]

\* C12: in a video_render job a call of the audio mix or of the caption
\* burn on an existing input never ends the job, whether the tool exits
\* with an error or cannot be launched: the output is the mix or the burn,
\* or else a copy of the voice track or of the input video, and the job
\* goes on to its next step.
C12_MixAndCaptionFailuresNeverAbort == [][MixOrCaptionFailureCopiesForward]_vars

\* C13: a lipsync_only job of tier realtime runs none of face restoration,
\* upscale, color grading and film grain, whatever its other fields are,
\* and the stage flags of its metadata are all false.
C13_RealtimeSkipsOptionalStages ==
  InLipsync /\ quality = "realtime" =>
    /\ \A i \in 1..Len(log) : log[i].stage \notin OptionalStages
    /\ Succeeded =>
         /\ ~response.metadata.face_enhance
         /\ ~response.metadata.upscaled
         /\ ~response.metadata.color_graded

NoFailures == \A i \in 1..Len(log) : log[i].res \in {"primary", "musetalk"}

\* C14: a successful lipsync_only job of tier cinema in which nothing
\* failed has run face restoration, upscale by 4, color grading and film
\* grain, and its metadata reports all four as applied.
C14_CinemaReportsAllApplied ==
  InLipsync /\ quality = "cinema" /\ Succeeded /\ NoFailures =>
    /\ \A s \in OptionalStages : Applied(s)
    /\ response.metadata.face_enhance
    /\ response.metadata.upscaled
    /\ response.metadata.upscale_factor = 4
    /\ response.metadata.color_graded
    /\ "film_grain" \in DOMAIN response.metadata
    /\ response.metadata.film_grain

KnownTypes == {"lipsync_only", "video_render", "persona_build"}

\* C15: a job that declares a type other than lipsync_only, video_render
\* and persona_build is answered at once with a failure record whose error
\* names the type; nothing is fetched, no stage runs, nothing is published
\* and no scratch directory exists.
C15_UnknownTypeRejectedFirst ==
  IsDict(job_input) /\ "job_type" \in DOMAIN job_input
    /\ job_input.job_type \notin KnownTypes =>
      /\ pc = "returned"
      /\ log = << >>
      /\ published = << >>
      /\ base_takes = << >>
      /\ ~tmpdir
      /\ fs = EmptyDir
      /\ DOMAIN response = {"success", "error", "traceback"}
      /\ ~response.success
      /\ response.error = "Unknown job type: " \o job_input.job_type

\* a job of type bogus_type was rejected
C15_Witness ==
  /\ IsDict(job_input) /\ "job_type" \in DOMAIN job_input
  /\ job_input.job_type = "bogus_type"
  /\ Failed
  /\ response.error = "Unknown job type: bogus_type"

StandardProfile ==
  [fps |-> 30, batch_size |-> 4, face_enhance |-> TRUE, upscale |-> FALSE,
   upscale_factor |-> 1, video_bitrate |-> "8M", audio_bitrate |-> "192k",
   crf |-> 23, preset |-> "medium"]

PastFaceStep ==
  \E i \in 1..Len(log) :
    log[i].stage \notin {"synthesis", "face_enhance"}

\* C16: a lipsync_only or video_render job whose tier name is none of the
\* six runs with the standard profile: the handler's preset and the
\* synthesis parameters are those of standard, face restoration runs
\* (unless the job's own face_enhance field says otherwise), upscale, color
\* grading and grain do not, and the name itself never fails the job.
C16_UnknownTierIsStandard ==
  (InLipsync \/ InVideoRender) /\ quality \notin TierNames =>
    /\ preset = StandardProfile
    /\ \A i \in 1..Len(log) :
         /\ log[i].stage = "synthesis" =>
              log[i].config = [fps |-> 30, batch_size |-> 4]
         /\ log[i].stage \notin {"upscale", "color_grade", "film_grain"}
    /\ PastFaceStep /\ (InVideoRender \/ "face_enhance" \notin DOMAIN job_input)
         => Logged("face_enhance")
    /\ Succeeded =>
         /\ response.metadata.preset = StandardProfile
         /\ response.metadata.quality = quality
    /\ Failed => response.error # "KeyError"

\* a job of the unknown tier "ultra" succeeded after a face restoration
C16_Witness ==
  /\ InLipsync /\ quality = "ultra"
  /\ Succeeded
  /\ Applied("face_enhance")
  /\ response.metadata.preset = StandardProfile

TierOrder == <<"realtime", "draft", "standard", "high", "pixar", "cinema">>

TierAt(k) == QUALITY_PRESETS[TierOrder[k]]

\* C17: along realtime, draft, standard, high, pixar, cinema the CRF and
\* the batch size never increase from a tier to the next; hence the CRF a
\* job's final encode uses and the batch size its synthesis uses are at
\* least those of every later tier.
C17_CrfAndBatchNonIncreasing ==
  /\ \A k \in 1..(Len(TierOrder) - 1) :
       /\ TierAt(k).crf >= TierAt(k + 1).crf
       /\ TierAt(k).batch_size >= TierAt(k + 1).batch_size
  /\ \A k \in 1..Len(TierOrder) :
       IsDict(job_input) /\ quality = TierOrder[k] =>
         \A j \in k..Len(TierOrder) :
           /\ preset.crf >= TierAt(j).crf
           /\ \A i \in 1..Len(log) :
                log[i].stage = "synthesis" =>
                  log[i].config.batch_size >= TierAt(j).batch_size

\* a pixar job has run its synthesis with the batch size cinema also has
C17_Witness ==
  /\ InLipsync /\ quality = "pixar"
  /\ log # << >>
  /\ log[1].stage = "synthesis"
  /\ log[1].config.batch_size = TierAt(6).batch_size
  /\ preset.crf > TierAt(6).crf

Toggles(face, upscale, grade, smoothing, grain) ==
  [face |-> face, upscale |-> upscale, grade |-> grade,
   smoothing |-> smoothing, grain |-> grain]

\* the toggles of each tier: face restoration, upscale factor (0: none),
\* color grading, temporal smoothing, film grain
TierToggles ==
  [realtime |-> Toggles(FALSE, 0, FALSE, FALSE, FALSE),
   draft    |-> Toggles(FALSE, 0, FALSE, FALSE, FALSE),
   standard |-> Toggles(TRUE, 0, FALSE, FALSE, FALSE),
   high     |-> Toggles(TRUE, 2, FALSE, FALSE, FALSE),
   pixar    |-> Toggles(TRUE, 2, TRUE, TRUE, FALSE),
   cinema   |-> Toggles(TRUE, 4, TRUE, TRUE, TRUE)]

\* the toggles as the handlers read them from a preset
EffectiveToggles(p) ==
  Toggles(Get(p, "face_enhance", TRUE),
          IF Get(p, "upscale", FALSE) THEN p["upscale_factor"] ELSE 0,
          Get(p, "color_grading", FALSE),
          Get(p, "temporal_smoothing", FALSE),
          Get(p, "film_grain", 0) > 0)

UpscaleTagOf(t) ==
  CASE t.upscale = 2 /\ ~t.smoothing -> "realesrgan_x2"
    [] t.upscale = 2 /\ t.smoothing -> "realesrgan_x2_smoothed"
    [] t.upscale = 4 /\ t.smoothing -> "realesrgan_x4_smoothed"
    [] OTHER -> "none"

CaptionList == Get(job_input, "captions", << >>)

\* with no captions the handler's caption step changes nothing
CaptionStepIsSkip ==
  InVideoRender /\ pc = "v_captions" /\ CaptionList = << >> =>
    /\ pc' = "v_grade"
    /\ current_output' = current_output
    /\ fs' = fs
    /\ log' = log
    /\ faults' = faults

\* burn_captions on an empty list, on the video the job holds: the output
\* is the input, whatever the tool would have done, and nothing else changes
EmptyBurnIsCopy ==
  InVideoRender /\ tmpdir /\ current_output # "" /\ Exists(fs, current_output) =>
    \A o \in ToolOutcomes :
      LET r == burn_captions(fs, current_output, << >>, "captioned.mp4", o) IN
      /\ r.raised = NoError
      /\ r.cost = 0
      /\ r.files["captioned.mp4"] = fs[current_output]
      /\ \A f \in FileNames \ {"captioned.mp4"} : r.files[f] = fs[f]

\* C19: with an empty or absent caption list the caption step of a
\* video_render job hands on the artifact it received, untouched, and no
\* caption burn is recorded; burn_captions itself, given an empty list,
\* copies its input to its output without running the tool.
C19_EmptyCaptionsNoOp ==
  /\ [][CaptionStepIsSkip]_vars
  /\ [](InVideoRender /\ CaptionList = << >> => ~Logged("caption_burn"))
  /\ []EmptyBurnIsCopy

\* a job with an explicitly empty caption list is past its caption step
C19_Witness ==
  /\ InVideoRender
  /\ "captions" \in DOMAIN job_input /\ job_input.captions = << >>
  /\ pc = "v_grade"
  /\ Exists(fs, current_output)
  /\ current_output \in {"enhanced.mp4", "upscaled.mp4"}

InPersona == IsDict(job_input) /\ job_type = "persona_build"

IdleTake == <<Get(job_input, "primary_image", None), "still_5s">>

\* the k-th entry of base_takes is the k-th requested take, published
TakeMatchesRequest(k) ==
  LET take == base_takes[k]
      wanted == takes_to_generate[k]
  IN
  /\ take.id = <<Get(job_input, "persona_id", None), "take", k - 1>>
  /\ take.emotion = Get(wanted, "emotion", "neutral")
  /\ take.angle = Get(wanted, "angle", "front")
  /\ take.duration = 5
  /\ IF R2_ENDPOINT
     THEN /\ take.video_url.scheme = "https"
          /\ Len(published) >= k
          /\ published[k].key = take.video_url.key
          /\ published[k].body = IdleTake
     ELSE /\ take.video_url.scheme = "data"
          /\ take.video_url.body = IdleTake

\* C20: a persona_build job runs no synthesis; its takes are 5 s stills of
\* the primary image, one per requested take and in request order, each
\* published, with pairwise distinct ids; a successful job returns them all
\* as metadata.base_takes (a single neutral/front take when the job names
\* none) with an empty output mapping.
C20_PersonaTakes ==
  InPersona =>
    /\ \A i \in 1..Len(log) : log[i].stage = "idle_take"
    /\ Len(base_takes) <= Len(takes_to_generate)
    /\ \A k \in 1..Len(base_takes) : TakeMatchesRequest(k)
    /\ \A j, k \in 1..Len(base_takes) : j # k => base_takes[j].id # base_takes[k].id
    /\ Succeeded =>
         /\ response.output = EmptyDict
         /\ response.metadata.base_takes = base_takes
         /\ Len(base_takes) = Len(takes_to_generate)
         /\ Len(log) = Len(takes_to_generate)
         /\ R2_ENDPOINT => Len(published) = Len(takes_to_generate)
         /\ "takes_to_generate" \notin DOMAIN job_input =>
              /\ Len(base_takes) = 1
              /\ base_takes[1].emotion = "neutral"
              /\ base_takes[1].angle = "front"

\* a job asking for two takes succeeded and both are in the object store
C20_Witness ==
  /\ InPersona /\ Succeeded
  /\ R2_ENDPOINT
  /\ Len(response.metadata.base_takes) = 2
  /\ Len(published) = 2
  /\ response.metadata.base_takes[1].emotion = "happy"
  /\ response.metadata.base_takes[2].angle = "left"

\* the bytes behind a published location, given the object store
BodyOf(url, store) ==
  IF url.scheme = "data"
  THEN url.body
  ELSE LET k == CHOOSE k \in 1..Len(store) : store[k].key = url.key
       IN  store[k].body

\* the returning step of a job handler hands out the final-encode artifact,
\* and for video_render a frame of it
PublishesFinalEncode ==
  pc' = "returned" /\ "success" \in DOMAIN response' /\ response'.success =>
    /\ pc = "l_upload" =>
         /\ DOMAIN response'.output = {"video"}
         /\ Exists(fs, "final_encoded.mp4")
         /\ BodyOf(response'.output.video, published') = fs["final_encoded.mp4"]
         /\ log[Len(log)].stage = "final_encode"
         /\ log[Len(log)].dst = "final_encoded.mp4"
         /\ log[Len(log)].res = "primary"
    /\ pc = "v_upload" =>
         /\ DOMAIN response'.output = {"video", "thumbnail"}
         /\ Exists(fs, "final.mp4")
         /\ BodyOf(response'.output.video, published') = fs["final.mp4"]
         /\ BodyOf(response'.output.thumbnail, published') = fs["final.mp4"] \o <<"frame0">>
         /\ Len(log) >= 2
         /\ log[Len(log) - 1].stage = "final_encode"
         /\ log[Len(log) - 1].dst = "final.mp4"
         /\ log[Len(log) - 1].res = "primary"
         /\ log[Len(log)].stage = "thumbnail"
         /\ log[Len(log)].src = "final.mp4"
         /\ log[Len(log)].res = "primary"

\* C21: a successful lipsync_only response has the single output video,
\* the published final-encode artifact; a successful video_render response
\* has exactly video and thumbnail, the published final-encode artifact
\* and a frame taken from it after the final encode.
C21_TerminalOutputs ==
  /\ [][PublishesFinalEncode]_vars
  /\ [](Succeeded /\ InLipsync => DOMAIN response.output = {"video"})
  /\ [](Succeeded /\ InVideoRender => DOMAIN response.output = {"video", "thumbnail"})

\* a video_render job returned both locations from the object store
C21_Witness ==
  /\ Succeeded /\ InVideoRender
  /\ R2_ENDPOINT
  /\ Len(published) = 2
  /\ response.output.video.scheme = "https"
  /\ response.output.thumbnail.scheme = "https"

\* the values an argument list gives to an option
OptionValues(cmd, flag) ==
  {cmd[i][2] : i \in {j \in 1..Len(cmd) : Len(cmd[j]) = 2 /\ cmd[j][1] = flag}}

\* the profile of the job's tier, standard for a name that is no tier
TierProfile ==
  IF quality \in TierNames THEN QUALITY_PRESETS[quality] ELSE StandardProfile

\* C22: the final encode of lipsync_only and of video_render is invoked
\* with the CRF, encoder preset, video bitrate and audio bitrate of the
\* job's resolved profile, which is standard for an unknown tier name.
C22_FinalEncodeUsesProfile ==
  InLipsync \/ InVideoRender =>
    \A i \in 1..Len(log) :
      log[i].stage = "final_encode" =>
        /\ OptionValues(log[i].cmd, "-crf") = {[decimal |-> TierProfile.crf]}
        /\ OptionValues(log[i].cmd, "-preset") = {TierProfile.preset}
        /\ OptionValues(log[i].cmd, "-b:v") = {TierProfile.video_bitrate}
        /\ OptionValues(log[i].cmd, "-b:a") = {TierProfile.audio_bitrate}
        /\ OptionValues(log[i].cmd, "-c:v") = {"libx264"}

\* a cinema job ran its final encode with CRF 14 and preset veryslow
C22_Witness ==
  /\ InVideoRender /\ quality = "cinema"
  /\ log # << >>
  /\ log[Len(log)].stage = "final_encode"
  /\ log[Len(log)].res = "primary"
  /\ OptionValues(log[Len(log)].cmd, "-crf") = {[decimal |-> 14]}
  /\ OptionValues(log[Len(log)].cmd, "-preset") = {"veryslow"}

SizeOptions == {"-vf", "-filter:v", "-s"}

RateOptions == {"-r", "-framerate"}

\* C23: every final encode is invoked with an output size (a scale-and-pad
\* filter or a size option) and an output frame rate.
C23_FinalEncodeSetsSizeAndRate ==
  InLipsync \/ InVideoRender =>
    \A i \in 1..Len(log) :
      log[i].stage = "final_encode" =>
        /\ \E f \in SizeOptions : OptionValues(log[i].cmd, f) # {}
        /\ \E f \in RateOptions : OptionValues(log[i].cmd, f) # {}

\* the published locations a successful response carries
ResponseLocations ==
  IF InPersona
  THEN {response.metadata.base_takes[k].video_url :
          k \in 1..Len(response.metadata.base_takes)}
  ELSE {response.output[k] : k \in DOMAIN response.output}

StoredKeys == {published[k].key : k \in 1..Len(published)}

\* C24: without a storage endpoint nothing is ever put in the object store
\* and every location of a successful response is a data URI; with an
\* endpoint every location is the URL of a remote key, and the objects
\* stored for the job are exactly those the response points to.
C24_PublicationFollowsEndpoint ==
  /\ ~R2_ENDPOINT => published = << >>
  /\ Succeeded /\ ~R2_ENDPOINT =>
       \A u \in ResponseLocations : u.scheme = "data"
  /\ Succeeded /\ R2_ENDPOINT =>
       /\ \A u \in ResponseLocations : u.scheme = "https" /\ u.key \in StoredKeys
       /\ StoredKeys = {u.key : u \in ResponseLocations}
       /\ InLipsync => StoredKeys = {<<"videos", job_id, "output.mp4">>}
       /\ InVideoRender => StoredKeys = {<<"videos", job_id, "final.mp4">>,
                                         <<"videos", job_id, "thumbnail.jpg">>}

\* a lipsync_only job on a worker without storage returned a data URI
C24_Witness ==
  /\ Succeeded /\ InLipsync
  /\ ~R2_ENDPOINT
  /\ response.output.video.scheme = "data"
  /\ published = << >>

\* the files a stage call may write: its output and, for the frame-by-frame
\* stages, the temporary file next to it
OwnFiles(e) ==
  {e.dst} \cup (IF e.dst \in {"enhanced.mp4", "upscaled.mp4"}
                THEN {TempOf(e.dst)} ELSE {})

\* while a job runs, a step changes no file that exists, and a stage call
\* changes only its own files
WritesOnlyOwnOutput ==
  (InLipsync \/ InVideoRender) /\ tmpdir /\ tmpdir' =>
    /\ \A f \in FileNames : Exists(fs, f) => fs'[f] = fs[f]
    /\ \A e \in Appended : \A f \in FileNames : fs'[f] # fs[f] => f \in OwnFiles(e)

OneWriterPerArtifact ==
  InLipsync \/ InVideoRender =>
    \A i, j \in 1..Len(log) : i # j => log[i].dst # log[j].dst

\* C25: in lipsync_only and video_render every stage call, whether its
\* primary method or its fallback produced the output, writes only its own
\* output (and temporary file); its input, the primary image and audio and
\* every earlier artifact keep their content; no two stage calls of a job
\* have the same output.
C25_StagesNonDestructive ==
  [][WritesOnlyOwnOutput]_vars /\ []OneWriterPerArtifact

\* a cinema job is at its final encode after a failed face restoration, and
\* its inputs and its synthesis output are as they were written
C25_Witness ==
  /\ InLipsync /\ quality = "cinema" /\ tmpdir
  /\ pc = "l_encode"
  /\ \E i \in 1..Len(log) : log[i].stage = "face_enhance" /\ log[i].res = "copied"
  /\ Applied("film_grain")
  /\ fs["input.png"] = <<image_data>>
  /\ fs["input.mp3"] = <<audio_data>>
  /\ fs["lipsync.mp4"] = <<image_data, audio_data, "musetalk">>
  /\ fs["enhanced.mp4"] = fs["lipsync.mp4"]

\* C26: in a successful lipsync_only or video_render response
\* metadata.preset is the profile the stages ran with and metadata.quality
\* is the name of the tier that profile belongs to, standard when the
\* requested name is no tier.
C26_MetadataNamesTierUsed ==
  Succeeded /\ (InLipsync \/ InVideoRender) =>
    /\ response.metadata.preset = TierProfile
    /\ response.metadata.quality \in TierNames
    /\ QUALITY_PRESETS[response.metadata.quality] = response.metadata.preset

\* a job handler that was entered eventually hands its record to the caller
EveryJobReturns == ~Resting ~> pc = "returned"

SynthesisYielded ==
  \E i \in 1..Len(log) :
    log[i].stage = "synthesis" /\ log[i].res \notin {"raised", "absent"}

FinalEncodeDone ==
  \E i \in 1..Len(log) : log[i].stage = "final_encode" /\ log[i].res = "primary"

\* a job whose synthesis yielded an artifact and whose final encode
\* succeeded ends with a published video
EncodedJobPublishesVideo ==
  (InLipsync \/ InVideoRender) /\ pc = "returned"
    /\ SynthesisYielded /\ FinalEncodeDone =>
      Succeeded /\ "video" \in DOMAIN response.output

\* C27: every job handler that is entered eventually returns a response,
\* and a job whose synthesis yielded an artifact and whose final encode
\* succeeded ends with a published video, whatever else failed.
C27_TerminatesWithVideo == EveryJobReturns /\ []EncodedJobPublishesVideo

\* the module-level names of handler.py that a job assigns are the three
\* handles, and a handle that is set stays set; the storage configuration
\* is read at import and never assigned
ModuleStateOnlyGainsHandles ==
  /\ musetalk_ready => musetalk_ready'
  /\ gfpgan_model => gfpgan_model'
  /\ realesrgan_model => realesrgan_model'
  /\ R2_ENDPOINT' = R2_ENDPOINT

\* a job handler is entered with nothing of an earlier job: no scratch
\* directory, no file, no current artifact, no stage call, no published
\* object, no take and no response
JobStartsFresh ==
  pc \in EntrySteps =>
    /\ ~tmpdir /\ fs = EmptyDir
    /\ current_output = ""
    /\ log = << >> /\ published = << >> /\ base_takes = << >>
    /\ response = NoResponse

\* the profile a job's synthesis ran with is the entry the table had at
\* import for the job's own tier, whatever ran before it
ProfileFromInitialTable ==
  \A i \in 1..Len(log) :
    log[i].stage = "synthesis" =>
      /\ log[i].config.fps = TierProfile.fps
      /\ log[i].config.batch_size = TierProfile.batch_size

StageOutputs ==
  {"enhanced.mp4", "upscaled.mp4", "captioned.mp4", "graded.mp4", "grain.mp4"}

\* the steps at which the job handler holds a current artifact it will read
ThreadedSteps ==
  {"l_face", "l_upscale", "l_grade", "l_grain",
   "v_face", "v_upscale", "v_mix", "v_captions", "v_grade", "v_grain", "v_encode"}

\* every visual stage call after the synthesis reads the output of the
\* visual stage called last before it
StageReadsLatestArtifact ==
  \A i \in 1..Len(log) :
    log[i].stage \in VisualStages \ {"synthesis"} => log[i].src = LastVisualBefore(i)

\* the final encode reads the output of the visual stage called last: by
\* its path in video_render; in lipsync_only through output.mp4, which is
\* the film grain's output or, without film grain, the copy of that artifact
FinalEncodeReadsLatestArtifact ==
  /\ \A i \in 1..Len(log) :
       log[i].stage = "final_encode" =>
         IF InVideoRender
         THEN log[i].src = LastVisualBefore(i)
         ELSE /\ log[i].src = "output.mp4"
              /\ \/ LastVisualBefore(i) = "output.mp4"
                 \/ /\ ~Logged("film_grain")
                    /\ tmpdir => fs["output.mp4"] = fs[LastVisualBefore(i)]
  /\ pc = "l_encode" =>
       \/ LastVisualBefore(Len(log) + 1) = "output.mp4"
       \/ /\ ~Logged("film_grain")
          /\ Exists(fs, "output.mp4")
          /\ fs["output.mp4"] = fs[LastVisualBefore(Len(log) + 1)]

\* between two stages the handler's current artifact is the output of the
\* visual stage called last
CurrentIsLatestArtifact ==
  pc \in ThreadedSteps => current_output = LastVisualBefore(Len(log) + 1)

\* the output path of a stage that was not called holds no file and is the
\* input of no stage call
SkippedOutputNeverRead ==
  \A f \in StageOutputs :
    (\A i \in 1..Len(log) : log[i].dst # f) =>
      /\ ~Exists(fs, f)
      /\ current_output # f
      /\ \A i \in 1..Len(log) : log[i].src # f

\* C29: in lipsync_only and video_render every visual stage that runs, and
\* the final encode, reads the output of the visual stage that ran last
\* before it, the synthesis output when none ran, and the output path of a
\* skipped stage is never read.
C29_CurrentArtifactThreaded ==
  InLipsync \/ InVideoRender =>
    /\ StageReadsLatestArtifact
    /\ FinalEncodeReadsLatestArtifact
    /\ CurrentIsLatestArtifact
    /\ SkippedOutputNeverRead

\* a cinema lipsync job without face restoration is past its final encode:
\* the upscale read the synthesis output and the grading the upscale's
C29_Witness ==
  /\ InLipsync /\ pc = "l_upload" /\ tmpdir
  /\ ~Logged("face_enhance")
  /\ \E i, j \in 1..Len(log) :
       /\ log[i].stage = "upscale" /\ log[i].src = "lipsync.mp4"
       /\ log[j].stage = "color_grade" /\ log[j].src = "upscaled.mp4"
  /\ Logged("film_grain") /\ Logged("final_encode")
  /\ ~Exists(fs, "enhanced.mp4")

\* the synthesis call of the job returned to the handler without raising
SynthesisReturned ==
  \E i \in 1..Len(log) : log[i].stage = "synthesis" /\ log[i].res # "raised"

\* a fallback (Wav2Lip or the static mux) was run by the synthesis call
FallbackRun ==
  \E i \in 1..Len(log) :
    /\ log[i].stage = "synthesis"
    /\ \E k \in 1..Len(log[i].tried) : log[i].tried[k] \in {"wav2lip", "static_mux"}

\* C30: when run_musetalk_inference returns without raising, for every
\* outcome of the primary model call, its output file is present or a
\* fallback was run; otherwise the job was failed at the synthesis stage.
C30_SynthesisOutputExists ==
  /\ \A i \in 1..Len(log) :
       log[i].stage = "synthesis" /\ log[i].res # "raised" =>
         log[i].res # "absent" \/ FallbackRun
  /\ pc \in {"l_face", "v_face"} /\ SynthesisReturned =>
       Exists(fs, "lipsync.mp4") \/ FallbackRun

\* the job's caption style
CaptionStyle == Get(job_input, "caption_style", EmptyDict)

\* the overlay is drawn in the job's style, with the default of each
\* field the style leaves out
InJobStyle(overlay) ==
  /\ overlay.fontsize = Str(IF "font_size" \in DOMAIN CaptionStyle
                            THEN CaptionStyle.font_size ELSE 48)
  /\ overlay.fontcolor = (IF "color" \in DOMAIN CaptionStyle
                          THEN CaptionStyle.color ELSE "white")
  /\ overlay.borderw = Str(IF "stroke_width" \in DOMAIN CaptionStyle
                           THEN CaptionStyle.stroke_width ELSE 2)
  /\ overlay.bordercolor = (IF "stroke_color" \in DOMAIN CaptionStyle
                            THEN CaptionStyle.stroke_color ELSE "black")
  /\ overlay.y = <<"h*", Str(IF "position_y" \in DOMAIN CaptionStyle
                              THEN CaptionStyle.position_y ELSE "0.75")>>
  /\ overlay.x = "(w-tw)/2"

\* the call built one overlay per caption, in list order, each enabled in
\* its own caption's window and drawn in the job's style
OverlayPerCaption(e) ==
  /\ Len(e.filters) = Len(CaptionList)
  /\ \A k \in 1..Len(CaptionList) :
       /\ e.filters[k].enable =
            <<"between", "t", Str(CaptionList[k].start), Str(CaptionList[k].end)>>
       /\ InJobStyle(e.filters[k])

\* C31: for a non-empty caption list burn_captions builds exactly one text
\* overlay per caption, in list order, each enabled between its own
\* caption's start and end, all in the job's style with the defaults for
\* absent fields; when the tool exits with an error the output is the
\* input copied unchanged.
C31_OneOverlayPerCaption ==
  \A i \in 1..Len(log) :
    log[i].stage = "caption_burn" =>
      /\ CaptionList # << >>
      /\ OverlayPerCaption(log[i])
      /\ log[i].res = "copied" /\ tmpdir => fs[log[i].dst] = fs[log[i].src]

\* a job with two captions and a partial style had both burnt in: two
\* overlays with different windows, the size of the style, the default color
C31_Witness ==
  /\ InVideoRender /\ pc = "v_grade" /\ Len(CaptionList) = 2
  /\ CaptionStyle = [stroke_color |-> "blue", stroke_width |-> 4, position_y |-> "0.5"]
  /\ \E i \in 1..Len(log) :
       /\ log[i].stage = "caption_burn" /\ log[i].res = "primary"
       /\ Len(log[i].filters) = 2
       /\ log[i].filters[1].enable # log[i].filters[2].enable
       /\ log[i].filters[2].borderw = Str(4)
       /\ log[i].filters[2].fontcolor = "white"

\* ------------------------------------------------- references, byte by byte
\* The job handlers treat a reference as text and a file as bytes.  Below a
\* text is the sequence of its characters and a file the sequence of its
\* bytes, so that publication without an endpoint and the resolution of an
\* input can be composed.
MaxBytes == 3

Bytes == {0, 105, 134, 219, 255}

ByteFiles == UNION {[1..n -> Bytes] : n \in 1..MaxBytes}

\* the alphabet of base64.b64encode
B64Alphabet ==
  <<"A", "B", "C", "D", "E", "F", "G", "H", "I", "J", "K", "L", "M", "N", "O", "P",
    "Q", "R", "S", "T", "U", "V", "W", "X", "Y", "Z", "a", "b", "c", "d", "e", "f",
    "g", "h", "i", "j", "k", "l", "m", "n", "o", "p", "q", "r", "s", "t", "u", "v",
    "w", "x", "y", "z", "0", "1", "2", "3", "4", "5", "6", "7", "8", "9", "+", "/">>

B64Chars == {B64Alphabet[i] : i \in 1..64}

B64Char(sextet) == B64Alphabet[sextet + 1]

B64Value(c) == (CHOOSE i \in 1..64 : B64Alphabet[i] = c) - 1

\* base64.b64encode(data).decode()
RECURSIVE b64encode(_)
b64encode(data) ==
  IF data = << >> THEN << >>
  ELSE IF Len(data) = 1
  THEN <<B64Char(data[1] \div 4), B64Char((data[1] % 4) * 16), "=", "=">>
  ELSE IF Len(data) = 2
  THEN <<B64Char(data[1] \div 4),
         B64Char((data[1] % 4) * 16 + data[2] \div 16),
         B64Char((data[2] % 16) * 4), "=">>
  ELSE <<B64Char(data[1] \div 4),
         B64Char((data[1] % 4) * 16 + data[2] \div 16),
         B64Char((data[2] % 16) * 4 + data[3] \div 64),
         B64Char(data[3] % 64)>> \o b64encode(SubSeq(data, 4, Len(data)))

\* the bytes of the sextets read so far of an unfinished group of four
PartialBytes(quad) ==
  IF Len(quad) < 2 THEN << >>
  ELSE IF Len(quad) = 2 THEN <<quad[1] * 4 + quad[2] \div 16>>
  ELSE <<quad[1] * 4 + quad[2] \div 16, (quad[2] % 16) * 16 + quad[3] \div 4>>

\* base64.b64decode(text) with validate=False: characters outside the
\* alphabet are skipped, padding ends the data, and a text that ends inside
\* a group of four raises binascii.Error
RECURSIVE a2b_base64(_, _, _)
a2b_base64(text, quad, pads) ==
  IF text = << >>
  THEN IF quad = << >> THEN [data |-> << >>, raised |-> NoError]
       ELSE [data |-> << >>, raised |-> "binascii.Error"]
  ELSE IF Head(text) = "="
  THEN IF Len(quad) >= 2 /\ pads + 1 >= 4 - Len(quad)
       THEN [data |-> PartialBytes(quad), raised |-> NoError]
       ELSE a2b_base64(Tail(text), quad, pads + 1)
  ELSE IF Head(text) \notin B64Chars
  THEN a2b_base64(Tail(text), quad, pads)
  ELSE LET q == Append(quad, B64Value(Head(text))) IN
       IF Len(q) < 4 THEN a2b_base64(Tail(text), q, 0)
       ELSE LET rest == a2b_base64(Tail(text), << >>, 0) IN
            [data |-> <<q[1] * 4 + q[2] \div 16,
                        (q[2] % 16) * 16 + q[3] \div 4,
                        (q[3] % 4) * 64 + q[4]>> \o rest.data,
             raised |-> rest.raised]

b64decode(text) == a2b_base64(text, << >>, 0)

\* text.startswith(prefix)
startswith(text, prefix) ==
  Len(text) >= Len(prefix) /\ SubSeq(text, 1, Len(prefix)) = prefix

\* text.split(",", 1)[1]
AfterFirstComma(text) ==
  IF \E i \in 1..Len(text) : text[i] = ","
  THEN LET i == CHOOSE i \in 1..Len(text) :
                  text[i] = "," /\ \A j \in 1..(i - 1) : text[j] # ","
       IN  [text |-> SubSeq(text, i + 1, Len(text)), raised |-> NoError]
  ELSE [text |-> << >>, raised |-> "IndexError"]

HttpPrefix == <<"h", "t", "t", "p">>

DataPrefix == <<"d", "a", "t", "a", ":">>

\* "video/mp4" if local_path.suffix == ".mp4" else "image/png"
MimeOf(path) ==
  IF path \in {"final_encoded.mp4", "final.mp4", "take_0.mp4", "take_1.mp4"}
  THEN <<"v", "i", "d", "e", "o", "/", "m", "p", "4">>
  ELSE <<"i", "m", "a", "g", "e", "/", "p", "n", "g">>

\* upload_to_r2() without an endpoint: f"data:{mime};base64,{b64encode(data)}"
data_url(path, data) ==
  DataPrefix \o MimeOf(path) \o <<";", "b", "a", "s", "e", "6", "4", ",">>
    \o b64encode(data)

\* a decode that hands the whole reference, header included, to b64decode
decode_base64_to_file_whole(files, data, path) ==
  LET d == b64decode(data) IN
  IF d.raised # NoError THEN [files |-> files, raised |-> d.raised]
  ELSE [files |-> [files EXCEPT ![path] = d.data], raised |-> NoError]

\* decode_base64_to_file(data, path)
decode_base64_to_file(files, data, path) ==
  LET payload == IF startswith(data, DataPrefix) THEN AfterFirstComma(data)
                 ELSE [text |-> data, raised |-> NoError]
      d == b64decode(payload.text)
  IN
  IF payload.raised # NoError THEN [files |-> files, raised |-> payload.raised]
  ELSE IF d.raised # NoError THEN [files |-> files, raised |-> d.raised]
  ELSE [files |-> [files EXCEPT ![path] = d.data], raised |-> NoError]

\* what the server of an http reference sends
Served == <<105, 255>>

\* if image_data.startswith("http"): download_file(...) else:
\* decode_base64_to_file(...)
resolve_reference(files, ref, path, o) ==
  IF startswith(ref, HttpPrefix)
  THEN IF o = "ok"
       THEN [files |-> [files EXCEPT ![path] = Served], raised |-> NoError,
             via |-> "download_file"]
       ELSE [files |-> files, raised |-> "URLError", via |-> "download_file"]
  ELSE decode_base64_to_file(files, ref, path) @@ [via |-> "decode_base64_to_file"]

\* references a client writes itself: a URL, bare base64 (one of them
\* begins with the letters http), base64 under a data-URI header
ClientRefs ==
  {HttpPrefix \o <<":", "/", "/", "x">>}
  \cup {b64encode(d) : d \in [1..3 -> {105, 134, 219}]}
  \cup {data_url("thumbnail.jpg", d) : d \in [1..2 -> {0, 255}]}

PublishedPaths == {"final_encoded.mp4", "thumbnail.jpg"}

\* a worker without storage endpoint that holds one finished artifact
RoundTripInit ==
  /\ musetalk_ready = TRUE /\ gfpgan_model = TRUE /\ realesrgan_model = TRUE
  /\ R2_ENDPOINT = FALSE
  /\ jobs_started = 0 /\ faults = 0
  /\ pc = "rt_encoded"
  /\ job_input = EmptyDict
  /\ tmpdir = TRUE
  /\ \E path \in PublishedPaths, data \in ByteFiles :
       fs = [EmptyDir EXCEPT ![path] = data]
  /\ current_output = ""
  /\ log = << >>
  /\ published = << >>
  /\ base_takes = << >>
  /\ response = NoResponse

\* upload_to_r2(local_path, key) of the finished artifact, no endpoint
PublishInline ==
  /\ pc = "rt_encoded" /\ ~R2_ENDPOINT
  /\ \E path \in PublishedPaths :
       /\ Exists(fs, path)
       /\ response' = [success |-> TRUE, output |-> [video |-> data_url(path, fs[path])],
                       of |-> path]
  /\ pc' = "rt_published"
  /\ UNCHANGED <<Handles, R2_ENDPOINT, jobs_started, faults, job_input, tmpdir,
                 fs, current_output, log, published, base_takes>>

\* the client hands the published data URI to the next job as its image
SubmitPublished ==
  /\ pc = "rt_published"
  /\ job_input' = [image |-> response.output.video]
  /\ pc' = "rt_submitted"
  /\ UNCHANGED <<Handles, R2_ENDPOINT, jobs_started, faults, tmpdir, fs,
                 current_output, log, published, base_takes, response>>

\* the client hands a reference of its own to the next job
SubmitReference ==
  /\ pc = "rt_encoded"
  /\ \E ref \in ClientRefs : job_input' = [image |-> ref]
  /\ pc' = "rt_submitted"
  /\ UNCHANGED <<Handles, R2_ENDPOINT, jobs_started, faults, tmpdir, fs,
                 current_output, log, published, base_takes, response>>

\* the input resolution of the job handler on its image reference
ResolveImage ==
  /\ pc = "rt_submitted"
  /\ \E o \in {"ok", "fail"} :
       LET r == resolve_reference(fs, job_input.image, "input.png", o) IN
       /\ fs' = r.files
       /\ log' = <<[stage |-> "resolve", via |-> r.via, raised |-> r.raised]>>
  /\ pc' = "rt_resolved"
  /\ UNCHANGED <<Handles, R2_ENDPOINT, jobs_started, faults, job_input, tmpdir,
                 current_output, published, base_takes, response>>

RoundTripNext == PublishInline \/ SubmitPublished \/ SubmitReference \/ ResolveImage

RoundTripSpec == RoundTripInit /\ [][RoundTripNext]_vars

\* a reference that begins with http is fetched, any other is decoded
HttpFetchedElseDecoded ==
  pc = "rt_resolved" =>
    log[1].via = (IF startswith(job_input.image, HttpPrefix)
                  THEN "download_file" ELSE "decode_base64_to_file")

\* the published data URI, resolved as an input, gives the published bytes
PublishedResolvesToSame ==
  pc = "rt_resolved" /\ response # NoResponse =>
    /\ log[1].via = "decode_base64_to_file"
    /\ log[1].raised = NoError
    /\ fs["input.png"] = fs[response.of]

\* base64 under a data-URI header decodes like the same base64 without it
HeaderIsStripped ==
  pc = "rt_resolved" /\ startswith(job_input.image, DataPrefix) =>
    LET bare == AfterFirstComma(job_input.image).text IN
    /\ log[1].raised = NoError
    /\ fs["input.png"] = b64decode(bare).data

\* C32: a reference that begins with http is fetched and any other
\* reference is base64-decoded after an optional data-URI header is
\* stripped; so the data URI that publication without a storage endpoint
\* makes of a file, resolved again as a job input, gives a file with the
\* same content.
C32_InlinePublicationRoundTrip ==
  HttpFetchedElseDecoded /\ PublishedResolvesToSame /\ HeaderIsStripped

\* a three-byte video was published inline and read back as the next
\* job's image
C32_Witness ==
  /\ pc = "rt_resolved" /\ response # NoResponse
  /\ response.of = "final_encoded.mp4"
  /\ fs["final_encoded.mp4"] = <<134, 0, 255>>
  /\ fs["input.png"] = <<134, 0, 255>>

\* the face restoration toggle of the job's resolved tier
TierFaceToggle == Get(TierProfile, "face_enhance", TRUE)

\* the job has gone past the face restoration step of its handler
AfterFaceStep ==
  \/ PastFaceStep
  \/ pc \in {"l_upscale", "l_grade", "l_grain", "l_encode", "l_upload",
             "v_upscale", "v_mix", "v_captions", "v_grade", "v_grain",
             "v_encode", "v_thumb", "v_upload"}

\* what decides the face restoration in each handler
FaceRestorationWanted ==
  IF InLipsync /\ "face_enhance" \in DOMAIN job_input
  THEN job_input.face_enhance
  ELSE TierFaceToggle

\* C33: in lipsync_only the face restoration runs exactly when the job
\* input's face_enhance field is true if the field is present and
\* otherwise when the resolved tier's toggle is on; in video_render the
\* field is ignored and the stage runs exactly when the tier's toggle is
\* on.
C33_FaceRestorationDecision ==
  InLipsync \/ InVideoRender =>
    /\ Logged("face_enhance") => FaceRestorationWanted
    /\ AfterFaceStep => (Logged("face_enhance") <=> FaceRestorationWanted)

\* a standard video_render job that asked for no face restoration ran it
C33_Witness ==
  /\ InVideoRender /\ quality = "standard"
  /\ "face_enhance" \in DOMAIN job_input /\ ~job_input.face_enhance
  /\ Logged("face_enhance") /\ AfterFaceStep

\* a cinema lipsync job that asked for no face restoration skipped it
C33_LipsyncOverrides ==
  /\ InLipsync /\ quality = "cinema"
  /\ "face_enhance" \in DOMAIN job_input /\ ~job_input.face_enhance
  /\ ~Logged("face_enhance") /\ AfterFaceStep

\* the steps of each job handler
HandlerSteps ==
  [lipsync_only |-> {"l_resolve", "l_synth", "l_face", "l_upscale", "l_grade",
                     "l_grain", "l_encode", "l_upload"},
   video_render |-> {"v_resolve", "v_side", "v_synth", "v_face", "v_upscale",
                     "v_mix", "v_captions", "v_grade", "v_grain", "v_encode",
                     "v_thumb", "v_upload"},
   persona_build |-> {"p_resolve", "p_take"}]

\* the type a job declares, lipsync_only when it has no job_type field
DeclaredType ==
  IF "job_type" \in DOMAIN job_input THEN job_input.job_type ELSE "lipsync_only"

\* the job that was just taken is in the first step of the handler of its
\* declared type, or answered at once when the type is unknown
RoutedToOwnHandler ==
  IF DeclaredType \in KnownTypes
  THEN pc \in HandlerSteps[DeclaredType] /\ pc \in EntrySteps
  ELSE pc = "returned"

\* no handler but the one of the declared type runs for the job
OnlyOwnHandlerRuns ==
  \A t \in KnownTypes : pc \in HandlerSteps[t] => DeclaredType = t

\* C34: every job is routed by its job_type: a job without the field to
\* the lipsync_only handler, each of the three known names to its own
\* handler, an unknown name to none; one handler at most runs per job.
C34_RoutingTotal ==
  /\ [][jobs_started' = jobs_started + 1 => RoutedToOwnHandler']_vars
  /\ [](jobs_started > 0 => OnlyOwnHandlerRuns)

\* C35: whenever a job of any type is answered with success false, nothing
\* of that job has been uploaded to storage.
C35_FailedJobPublishesNothing ==
  Failed => published = << >>

\* ------------------------------------------------ worker instances, one bucket
\* Several worker instances run handler() at the same time, each in its own
\* process with its own scratch directory, and all upload to one bucket.
\* Here pc, job_input, fs and response hold one value per worker, published
\* is the bucket's upload history, and log holds the job identifiers the
\* handlers resolved, with the clock second read for them.
Workers == {1, 2}

MaxFleetJobs == 3

MaxSecond == 1

\* f"job_{int(time.time())}" at clock second t
generated_job_id(t) == <<"job_", Str(t)>>

\* job_id = job_input.get("job_id", f"job_{int(time.time())}")
job_id_at(input, t) == Get(input, "job_id", generated_job_id(t))

FleetInputs ==
  {("job_type" :> ty) @@ ("image" :> i) @@ ("audio" :> "data:audio") @@ j :
      ty \in {"lipsync_only", "video_render"},
      i \in {"data:image", "http://image"},
      j \in Opt("job_id", {"client-7"})}

\* the second of the latest clock read so far
LatestSecond ==
  IF log = << >> THEN 0 ELSE log[Len(log)].at

\* the identifier worker w's current job resolved
JobIdOf(w) ==
  LET k == CHOOSE k \in 1..Len(log) :
             log[k].worker = w /\ \A m \in (k + 1)..Len(log) : log[m].worker # w
  IN  log[k]

FleetInit ==
  /\ musetalk_ready = TRUE /\ gfpgan_model = TRUE /\ realesrgan_model = TRUE
  /\ R2_ENDPOINT = TRUE
  /\ jobs_started = 0 /\ faults = 0
  /\ pc = [w \in Workers |-> "idle"]
  /\ job_input = [w \in Workers |-> EmptyDict]
  /\ tmpdir = FALSE
  /\ fs = [w \in Workers |-> EmptyDir]
  /\ current_output = ""
  /\ log = << >>
  /\ published = << >>
  /\ base_takes = << >>
  /\ response = [w \in Workers |-> NoResponse]

\* handler(job) on worker w up to the job handler's job_id line; the clock
\* never runs backwards
F_Start(w) ==
  /\ pc[w] \in {"idle", "returned"}
  /\ jobs_started < MaxFleetJobs
  /\ jobs_started' = jobs_started + 1
  /\ \E input \in FleetInputs, t \in LatestSecond..MaxSecond :
       /\ job_input' = [job_input EXCEPT ![w] = input]
       /\ log' = Append(log, [stage |-> "job_id", worker |-> w, at |-> t,
                              serial |-> jobs_started',
                              generated |-> "job_id" \notin DOMAIN input,
                              value |-> job_id_at(input, t)])
  /\ pc' = [pc EXCEPT ![w] = "running"]
  /\ fs' = [fs EXCEPT ![w] = EmptyDir]
  /\ response' = [response EXCEPT ![w] = NoResponse]
  /\ UNCHANGED <<Handles, R2_ENDPOINT, faults, tmpdir, current_output, published,
                 base_takes>>

\* the job handler of worker w from the input resolution to the final encode
F_Render(w) ==
  /\ pc[w] = "running"
  /\ \E o \in {"ok", "fail"} :
       LET out == IF job_input[w].job_type = "lipsync_only"
                  THEN "final_encoded.mp4" ELSE "final.mp4"
           made == WriteFile(fs[w], "output.mp4",
                             <<job_input[w].image, job_input[w].audio, "musetalk">>)
           r == final_encode(made, "output.mp4", out, o)
       IN
       IF r.raised # NoError
       THEN /\ pc' = [pc EXCEPT ![w] = "returned"]
            /\ fs' = [fs EXCEPT ![w] = EmptyDir]
            /\ response' = [response EXCEPT ![w] = HandlerExcept(r.raised, "encode")]
       ELSE /\ pc' = [pc EXCEPT ![w] = "encoded"]
            /\ fs' = [fs EXCEPT ![w] = r.files]
            /\ UNCHANGED response
  /\ UNCHANGED <<Handles, R2_ENDPOINT, jobs_started, faults, tmpdir, job_input,
                 current_output, log, published, base_takes>>

\* upload_to_r2(final, f"videos/{job_id}/...") on worker w and the return
F_Upload(w) ==
  /\ pc[w] = "encoded"
  /\ LET id == JobIdOf(w)
         lip == job_input[w].job_type = "lipsync_only"
         u == upload_to_r2(fs[w], R2_ENDPOINT,
                           IF lip THEN "final_encoded.mp4" ELSE "final.mp4",
                           <<"videos", id.value, IF lip THEN "output.mp4" ELSE "final.mp4">>,
                           "ok")
     IN
     /\ published' = published \o
                       [k \in 1..Len(u.stored) |-> u.stored[k] @@ [by |-> id.serial]]
     /\ response' = [response EXCEPT ![w] =
                       HandlerReturn([video |-> u.url], [job_id |-> id.value])
                         @@ [serial |-> id.serial]]
  /\ pc' = [pc EXCEPT ![w] = "returned"]
  /\ fs' = [fs EXCEPT ![w] = EmptyDir]
  /\ UNCHANGED <<Handles, R2_ENDPOINT, jobs_started, faults, tmpdir, job_input,
                 current_output, log, base_takes>>

FleetNext == \E w \in Workers : F_Start(w) \/ F_Render(w) \/ F_Upload(w)

FleetSpec == FleetInit /\ [][FleetNext]_vars

\* the object the bucket holds under a key: the last one uploaded to it
ObjectAt(key) ==
  LET k == CHOOSE k \in 1..Len(published) :
             published[k].key = key
               /\ \A m \in (k + 1)..Len(published) : published[m].key # key
  IN  published[k]

\* two jobs that supplied no job_id got different identifiers
GeneratedIdsDistinct ==
  \A i, j \in 1..Len(log) :
    i # j /\ log[i].generated /\ log[j].generated => log[i].value # log[j].value

\* the video a job without job_id published is still the object its URL
\* names
PublishedVideoKept ==
  \A w \in Workers :
    /\ pc[w] = "returned" /\ "success" \in DOMAIN response[w] /\ response[w].success
    /\ "job_id" \notin DOMAIN job_input[w]
    => \/ ObjectAt(response[w].output.video.key).by = response[w].serial
       \/ \E k \in 1..Len(log) :
            /\ log[k].serial = ObjectAt(response[w].output.video.key).by
            /\ ~log[k].generated

\* C36: two jobs that supply no job_id, run one after the other or at the
\* same time on separate workers, get distinct generated identifiers, so
\* neither publishes to the other's remote key and no published video is
\* overwritten by another job's.
C36_GeneratedJobIdsDistinct ==
  GeneratedIdsDistinct /\ PublishedVideoKept

\* the labels between brackets that are no input pads
StreamLabels == {"voice", "music_raw", "music", "ambience", "sfx0", "out"}

\* how often the filters of g write label l, and how often they, and the
\* -map option, read it
TimesWritten(g, l) ==
  Cardinality({<<k, n>> \in (1..Len(g.filters)) \X (1..2) :
                 n <= Len(g.filters[k].writes) /\ g.filters[k].writes[n] = l})

TimesRead(g, l) ==
  Cardinality({<<k, n>> \in (1..Len(g.filters)) \X (1..4) :
                 n <= Len(g.filters[k].reads) /\ g.filters[k].reads[n] = l})
    + (IF g.map = l THEN 1 ELSE 0)

\* the secondary tracks of the job whose file is in the scratch directory
\* when the mix is built, in the order music, ambience, sound effects
TracksPresent(files) ==
  (IF music_path # None /\ Exists(files, music_path) THEN <<music_path>> ELSE << >>)
  \o (IF ambience_path # None /\ Exists(files, ambience_path)
      THEN <<ambience_path>> ELSE << >>)
  \o (IF sfx_tracks # << >> /\ Exists(files, sfx_tracks[1])
      THEN <<sfx_tracks[1]>> ELSE << >>)

\* the stream a track's file is turned into
StreamOf(path) ==
  CASE path = "music.mp3" -> "music_raw"
    [] path = "ambience.mp3" -> "ambience"
    [] path = "sfx_0.mp3" -> "sfx0"

\* the graph of a mix call is well-formed
WellFormedMix(g, files) ==
  LET amix == g.filters[Len(g.filters)] IN
  \* every stream label is written once and read once, or does not occur
  /\ \A l \in StreamLabels :
       \/ TimesWritten(g, l) = 1 /\ TimesRead(g, l) = 1
       \/ TimesWritten(g, l) = 0 /\ TimesRead(g, l) = 0
  \* the input files are the voice and the tracks present, and each track's
  \* filter reads the input added for that track
  /\ g.inputs = <<"voice.mp3">> \o TracksPresent(files)
  /\ \A k \in 1..Len(g.filters) : \A n \in 1..Len(g.filters[k].reads) :
       \A idx \in 0..3 :
         g.filters[k].reads[n] = Pad(idx) =>
           /\ idx + 1 <= Len(g.inputs)
           /\ g.filters[k].writes =
                <<IF idx = 0 THEN "voice" ELSE StreamOf(g.inputs[idx + 1])>>
  \* the final mix declares as many inputs as it is fed, the voice first
  /\ amix.filter = "amix"
  /\ amix.inputs = Len(amix.reads)
  /\ amix.reads[1] = "voice"
  /\ Len(amix.reads) = 1 + Len(TracksPresent(files))

\* C37: for every combination of present and absent music, ambience and
\* sound-effect tracks the filter graph of mix_audio is well-formed: every
\* labelled stream is produced once and consumed once, every input index
\* refers to the file added for its track, absent tracks are left out, and
\* the final mix declares as many inputs as it is fed, the voice first.
C37_MixGraphWellFormed ==
  InVideoRender /\ tmpdir =>
    \A i \in 1..Len(log) :
      log[i].stage = "audio_mix" => WellFormedMix(log[i].graph, fs)

\* the stages that call a setup function, and the handle each one's setup
\* returns
SetupStages == {"synthesis", "face_enhance", "upscale"}

HandleBefore(stage) ==
  CASE stage = "synthesis" -> musetalk_ready
    [] stage = "face_enhance" -> gfpgan_model
    [] stage = "upscale" -> realesrgan_model

HandleAfter(stage) ==
  CASE stage = "synthesis" -> musetalk_ready'
    [] stage = "face_enhance" -> gfpgan_model'
    [] stage = "upscale" -> realesrgan_model'

\* a ready handle stays ready, whatever the step and however the job ends
ReadyStaysReady ==
  /\ musetalk_ready => musetalk_ready'
  /\ gfpgan_model => gfpgan_model'
  /\ realesrgan_model => realesrgan_model'

\* a setup call on a ready handle installs and downloads nothing; on a
\* handle that is not ready it attempts the setup, which leaves the handle
\* ready when it succeeds and not ready when it fails
SetupOncePerHandle ==
  \A e \in Appended :
    e.stage \in SetupStages =>
      /\ HandleBefore(e.stage) => e.setup = "nothing"
      /\ ~HandleBefore(e.stage) => e.setup \in {"installed", "failed"}
      /\ e.setup = "installed" => HandleAfter(e.stage)
      /\ e.setup = "failed" => ~HandleAfter(e.stage)

\* C38: for the lip-sync, face-restoration and upscaler handles, a handle
\* that a setup call made ready stays ready for the rest of the process,
\* later setup calls install and download nothing, and a setup call that
\* fails leaves the handle not ready, so that the next call attempts the
\* setup again.
C38_ReadinessMonotonic ==
  [][ReadyStaysReady /\ SetupOncePerHandle]_vars

\* the second job of a worker found the lip-sync model and the upscaler
\* ready and installed the face restorer, which no call before had done
C38_Witness ==
  /\ jobs_started = 2 /\ InLipsync /\ pc = "l_grade"
  /\ \E i, j, k \in 1..Len(log) :
       /\ log[i].stage = "synthesis" /\ log[i].setup = "nothing"
       /\ log[j].stage = "face_enhance" /\ log[j].setup = "installed"
       /\ log[k].stage = "upscale" /\ log[k].setup = "nothing"
  /\ musetalk_ready /\ gfpgan_model /\ realesrgan_model

====
